---------------------------- MODULE Spec2Model ----------------------------
(***************************************************************************)
(* Model of bloop's condition subsystem (src/bloop/conditions.py): the     *)
(* change-tracking cache, the reference tracker, the condition algebra and *)
(* the expression renderer.                                                *)
(*                                                                         *)
(* Python strings are TLA+ strings, built with \o and ToString exactly as  *)
(* the code builds them with str.format and str.join.  Python dicts are    *)
(* functions whose domain is the set of keys.  Python values are records   *)
(* with a "kind" field, so that None, raw literals, dumped wire values and *)
(* columns can live in one collection.                                     *)
(***************************************************************************)
EXTENDS Integers, Sequences, FiniteSets, TLC

VARIABLES
    tracking,     \* _obj_tracking: object -> [marked, snapshot]
    attrs,        \* the objects' attribute values: object -> model_name -> value
    refs,         \* the ReferenceTracker of the current render session
    expressions,  \* ConditionRenderer.expressions of the current render session
    outcome,      \* the last call: its name, its arguments and how it ended
    steps,        \* number of fragment renders made in the current session
    heap,         \* the condition objects: object id -> node
    env,          \* the names of the caller: name -> object id
    calls,        \* render calls in progress: the trackers built and, per
                  \* thread, the renderer and the position in render()
    iter          \* the iter_conditions generator in progress: its root, its
                  \* stack, its visited set and what it has yielded

vars ==
    <<tracking, attrs, refs, expressions, outcome, steps, heap, env, calls, iter>>

-----------------------------------------------------------------------------
(* Python values *)

None == [kind |-> "None"]
missing == [kind |-> "missing"]
Lit(py) == [kind |-> "lit", py |-> py]
Wire(t, py) == [kind |-> "wire", t |-> t, py |-> py]

\* A ComparisonMixin object used as a value.  A declared column is one
\* object (oid 0); ComparisonMixin.__getitem__ makes a new object at every
\* call, and oid tells the objects of one path apart
ColObject(col, oid) == [kind |-> "col", col |-> col, oid |-> oid]
ColValue(col) == ColObject(col, 0)

\* isinstance(value, ComparisonMixin)
IsColumn(value) == value.kind = "col"

-----------------------------------------------------------------------------
(* Columns: a ComparisonMixin with its proxied column and its path *)

KeySeg(s) == [isint |-> FALSE, key |-> s, idx |-> 0]
IdxSeg(i) == [isint |-> TRUE, key |-> "", idx |-> i]

Column(model_name, dynamo_name, typedef, path) ==
    [model_name |-> model_name, dynamo_name |-> dynamo_name,
     typedef |-> typedef, path |-> path]

\* ComparisonMixin.__getitem__: a proxy of the same column with a longer path
GetItem(col, seg) == [col EXCEPT !.path = Append(@, seg)]

\* hash(column), as `column in a_set` calls it: a declared column hashes as
\* an object, a proxy made by __getitem__ is a ComparisonMixin, which
\* defines __eq__ and no __hash__, and hashing it raises TypeError
Hashable(col) == Len(col.path) = 0

\* typedef[segment] of the type collaborator: the type declared one step down
TypedefItem(typedef, seg) ==
    IF seg.isint THEN typedef \o "[" \o ToString(seg.idx) \o "]"
    ELSE typedef \o "." \o seg.key

\* typedef.inner_typedef of the type collaborator: a collection's element type
InnerTypedef(typedef) == typedef \o ".inner"

\* engine._dump(typedef, value): None stays None, an empty literal dumps to
\* None, any other value is wrapped with the type it was dumped through.
\* Dumping a wire value again wraps it a second time.
Dump(typedef, value) ==
    IF value.kind = "None" THEN None
    ELSE IF value.kind = "lit"
         THEN IF value.py \in {"", "set()"} THEN None ELSE Wire(typedef, value.py)
         ELSE Wire(typedef, "{" \o value.t \o ": " \o value.py \o "}")

-----------------------------------------------------------------------------
(* Reference tracker *)

Reference(name, type, value) == [name |-> name, type |-> type, value |-> value]

\* A variant of is_empty for which no reference is empty.
is_empty_never(ref) == FALSE

\* is_empty(ref)
is_empty(ref) == ref.type = "value" /\ ref.value.kind = "None"

\* ReferenceTracker.__init__
NewTracker ==
    [next_index |-> 0, counts |-> << >>, attr_values |-> << >>,
     attr_names |-> << >>, name_attr_index |-> << >>]

\* dict[key] = value
Put(d, k, v) == [x \in DOMAIN d \cup {k} |-> IF x = k THEN v ELSE d[x]]
\* del dict[key]
Del(d, k) == [x \in DOMAIN d \ {k} |-> d[x]]
\* counts[key] on the defaultdict(lambda: 0)
CountOf(tr, k) == IF k \in DOMAIN tr.counts THEN tr.counts[k] ELSE 0

\* A variant of name_ref that mints a placeholder for every reference.
name_ref_nodedupe(tr, name) ==
    LET ref == "#n" \o ToString(tr.next_index) IN
    [refs |-> [tr EXCEPT !.next_index = @ + 1,
                         !.attr_names = Put(@, ref, name),
                         !.name_attr_index = Put(@, name, ref),
                         !.counts = Put(@, ref, CountOf(tr, ref) + 1)],
     ref |-> ref]

\* A variant of name_ref that numbers a new name by the size of the name table.
name_ref_bysize(tr, name) ==
    IF name \in DOMAIN tr.name_attr_index
    THEN LET ref == tr.name_attr_index[name] IN
         [refs |-> [tr EXCEPT !.counts = Put(@, ref, CountOf(tr, ref) + 1)],
          ref |-> ref]
    ELSE LET ref == "#n" \o ToString(Cardinality(DOMAIN tr.attr_names)) IN
         [refs |-> [tr EXCEPT !.next_index = @ + 1,
                              !.attr_names = Put(@, ref, name),
                              !.name_attr_index = Put(@, name, ref),
                              !.counts = Put(@, ref, CountOf(tr, ref) + 1)],
          ref |-> ref]

\* ReferenceTracker._name_ref
name_ref(tr, name) ==
    IF name \in DOMAIN tr.name_attr_index
    THEN LET ref == tr.name_attr_index[name] IN
         [refs |-> [tr EXCEPT !.counts = Put(@, ref, CountOf(tr, ref) + 1)],
          ref |-> ref]
    ELSE LET ref == "#n" \o ToString(tr.next_index) IN
         [refs |-> [tr EXCEPT !.next_index = @ + 1,
                              !.attr_names = Put(@, ref, name),
                              !.name_attr_index = Put(@, name, ref),
                              !.counts = Put(@, ref, CountOf(tr, ref) + 1)],
          ref |-> ref]

\* ".".join(str_pieces)
RECURSIVE JoinWith(_, _)
JoinWith(sep, strs) ==
    IF Len(strs) = 0 THEN ""
    ELSE IF Len(strs) = 1 THEN strs[1]
    ELSE strs[1] \o sep \o JoinWith(sep, Tail(strs))

\* The loop of _path_ref over the pieces from position i on.
RECURSIVE PathPieces(_, _, _, _)
PathPieces(tr, pieces, i, str_pieces) ==
    IF i > Len(pieces) THEN [refs |-> tr, str_pieces |-> str_pieces]
    ELSE IF pieces[i].isint
    THEN PathPieces(tr, pieces, i + 1,
            [str_pieces EXCEPT ![Len(str_pieces)] =
                @ \o "[" \o ToString(pieces[i].idx) \o "]"])
    ELSE LET Go(r) == PathPieces(r.refs, pieces, i + 1, Append(str_pieces, r.ref))
         IN Go(name_ref(tr, pieces[i].key))

\* ReferenceTracker._path_ref
path_ref(tr, column) ==
    LET Joined(r) == [refs |-> r.refs, name |-> JoinWith(".", r.str_pieces)]
    IN Joined(PathPieces(tr, <<KeySeg(column.dynamo_name)>> \o column.path,
                         1, << >>))

\* The typedef _value_ref dumps through: column.typedef walked down the path
RECURSIVE TypedefAt(_, _)
TypedefAt(typedef, path) ==
    IF Len(path) = 0 THEN typedef
    ELSE TypedefAt(TypedefItem(typedef, Head(path)), Tail(path))

\* A variant of value_ref that shares the placeholder of an equal value.
value_ref_share(tr, column, value, dumped, inner) ==
    LET t0 == TypedefAt(column.typedef, column.path)
        typedef == IF inner THEN InnerTypedef(t0) ELSE t0
        v == IF ~dumped THEN Dump(typedef, value) ELSE value
        same == {k \in DOMAIN tr.attr_values : tr.attr_values[k] = v}
        ref == IF same # {} THEN CHOOSE k \in same : TRUE
               ELSE ":v" \o ToString(tr.next_index)
    IN [refs |-> [tr EXCEPT !.next_index = @ + 1,
                            !.attr_values = Put(@, ref, v),
                            !.counts = Put(@, ref, CountOf(tr, ref) + 1)],
        name |-> ref, value |-> v]

\* A variant of value_ref that dumps a value already dumped.
value_ref_redump(tr, column, value, dumped, inner) ==
    LET ref == ":v" \o ToString(tr.next_index)
        t0 == TypedefAt(column.typedef, column.path)
        typedef == IF inner THEN InnerTypedef(t0) ELSE t0
        v == Dump(typedef, value)
    IN [refs |-> [tr EXCEPT !.next_index = @ + 1,
                            !.attr_values = Put(@, ref, v),
                            !.counts = Put(@, ref, CountOf(tr, ref) + 1)],
        name |-> ref, value |-> v]

\* ReferenceTracker._value_ref
value_ref(tr, column, value, dumped, inner) ==
    LET ref == ":v" \o ToString(tr.next_index)
        t0 == TypedefAt(column.typedef, column.path)
        typedef == IF inner THEN InnerTypedef(t0) ELSE t0
        v == IF ~dumped THEN Dump(typedef, value) ELSE value
    IN [refs |-> [tr EXCEPT !.next_index = @ + 1,
                            !.attr_values = Put(@, ref, v),
                            !.counts = Put(@, ref, CountOf(tr, ref) + 1)],
        name |-> ref, value |-> v]

\* ReferenceTracker.any_ref
any_ref(tr, column, value, dumped, inner) ==
    LET NameRef(r) == [refs |-> r.refs, ref |-> Reference(r.name, "name", None)]
        ValueRef(r) ==
            [refs |-> r.refs, ref |-> Reference(r.name, "value", r.value)]
    IN  IF value.kind = "missing" THEN NameRef(path_ref(tr, column))
        ELSE IF IsColumn(value) THEN NameRef(path_ref(tr, value.col))
        ELSE ValueRef(value_ref(tr, column, value, dumped, inner))

\* A variant of pop_ref that decrements the count of a ref it does not track.
pop_ref_unguarded(tr, ref) ==
    LET name == ref.name
        count == CountOf(tr, name)
        read == [tr EXCEPT !.counts = Put(@, name, count)]
    IN  IF count # 1 THEN [read EXCEPT !.counts = Put(@, name, count - 1)]
        ELSE IF ref.type = "value"
        THEN [read EXCEPT !.counts = Put(@, name, count - 1),
                          !.attr_values = Del(@, name)]
        ELSE [read EXCEPT !.counts = Put(@, name, count - 1),
                          !.attr_names = Del(@, name),
                          !.name_attr_index = Del(@, tr.attr_names[name])]

\* A variant of pop_ref that leaves the released name in name_attr_index.
pop_ref_keepindex(tr, ref) ==
    LET name == ref.name
        count == CountOf(tr, name)
        read == [tr EXCEPT !.counts = Put(@, name, count)]
    IN  IF count < 1 THEN read
        ELSE IF count > 1 THEN [read EXCEPT !.counts = Put(@, name, count - 1)]
        ELSE IF ref.type = "value"
        THEN [read EXCEPT !.counts = Put(@, name, count - 1),
                          !.attr_values = Del(@, name)]
        ELSE [read EXCEPT !.counts = Put(@, name, count - 1),
                          !.attr_names = Del(@, name)]

\* The body of pop_refs' loop for one ref.  Reading counts[name] on the
\* defaultdict stores 0 for a name it does not hold.
pop_ref(tr, ref) ==
    LET name == ref.name
        count == CountOf(tr, name)
        read == [tr EXCEPT !.counts = Put(@, name, count)]
    IN  IF count < 1 THEN read
        ELSE IF count > 1 THEN [read EXCEPT !.counts = Put(@, name, count - 1)]
        ELSE IF ref.type = "value"
        THEN [read EXCEPT !.counts = Put(@, name, count - 1),
                          !.attr_values = Del(@, name)]
        ELSE [read EXCEPT !.counts = Put(@, name, count - 1),
                          !.attr_names = Del(@, name),
                          !.name_attr_index = Del(@, tr.attr_names[name])]

\* ReferenceTracker.pop_refs
RECURSIVE pop_refs(_, _)
pop_refs(tr, rs) ==
    IF Len(rs) = 0 THEN tr ELSE pop_refs(pop_ref(tr, Head(rs)), Tail(rs))

-----------------------------------------------------------------------------
(* Conditions.  A condition is a tree; every node of a tree is an object   *)
(* of its own (two equal subtrees are two objects).                        *)

NoColumn == Column("", "", "", << >>)

\* BaseCondition.__init__
BaseCondition(operation, column, values, dumped) ==
    [operation |-> operation, column |-> column, values |-> values,
     dumped |-> dumped]

\* Condition(): the empty condition, operation None
Condition == BaseCondition("None", NoColumn, << >>, FALSE)
AndCondition(values) == BaseCondition("and", NoColumn, values, FALSE)
OrCondition(values) == BaseCondition("or", NoColumn, values, FALSE)
NotCondition(value) == BaseCondition("not", NoColumn, <<value>>, FALSE)
ComparisonCondition(operation, column, value) ==
    BaseCondition(operation, column, <<value>>, FALSE)
BeginsWithCondition(column, value) ==
    BaseCondition("begins_with", column, <<value>>, FALSE)
BetweenCondition(column, lower, upper) ==
    BaseCondition("between", column, <<lower, upper>>, FALSE)
ContainsCondition(column, value) ==
    BaseCondition("contains", column, <<value>>, FALSE)
InCondition(column, values) == BaseCondition("in", column, values, FALSE)

\* condition.dumped = True
SetDumped(c) == [c EXCEPT !.dumped = TRUE]

IsConnective(c) == c.operation \in {"and", "or", "not"}

\* comparison_aliases
comparison_aliases ==
    [op \in {"==", "!=", "<", ">", "<=", ">="} |->
        IF op = "==" THEN "=" ELSE IF op = "!=" THEN "<>" ELSE op]

\* iter_conditions below a node: the node, then what its children yield,
\* depth first and left to right.
RECURSIVE PreOrder(_)
RECURSIVE PreOrderAll(_)
PreOrder(c) ==
    <<c>> \o (IF IsConnective(c) THEN PreOrderAll(c.values) ELSE << >>)
PreOrderAll(cs) ==
    IF Len(cs) = 0 THEN << >> ELSE PreOrder(Head(cs)) \o PreOrderAll(Tail(cs))

\* iter_conditions: the root of an and/or/not is not yielded
iter_conditions(c) ==
    IF c.operation \in {"and", "or"} THEN PreOrderAll(c.values)
    ELSE IF c.operation = "not" THEN PreOrder(c.values[1])
    ELSE <<c>>

\* __len__ of each condition class
RECURSIVE CondLen(_)
CondLen(c) ==
    IF c.operation = "None" THEN 0
    ELSE IF c.operation \in {"and", "or"} THEN Len(iter_conditions(c))
    ELSE IF c.operation = "not" THEN CondLen(c.values[1])
    ELSE 1

\* bool(condition): Python's truth value of an object with __len__
Truthy(c) == CondLen(c) > 0

\* BaseCondition.__and__
and_(self, other) ==
    IF ~Truthy(other) THEN self
    ELSE IF ~Truthy(self) THEN other
    ELSE IF self.operation = "and" /\ other.operation = "and"
    THEN AndCondition(self.values \o other.values)
    ELSE IF self.operation = "and" THEN AndCondition(Append(self.values, other))
    ELSE IF other.operation = "and" THEN AndCondition(<<self>> \o other.values)
    ELSE AndCondition(<<self, other>>)

\* BaseCondition.__iand__ on a left operand nobody else holds: the list it
\* extends in place is the list of the node it returns.
iand_(self, other) ==
    IF ~Truthy(other) THEN self
    ELSE IF ~Truthy(self) THEN other
    ELSE IF self.operation = "and" /\ other.operation = "and"
    THEN [self EXCEPT !.values = @ \o other.values]
    ELSE IF self.operation = "and" THEN [self EXCEPT !.values = Append(@, other)]
    ELSE IF other.operation = "and" THEN AndCondition(<<self>> \o other.values)
    ELSE AndCondition(<<self, other>>)

\* supports_operation of the type collaborator: every type can be compared
\* for equality; ordering and prefix tests need a scalar; contains needs a
\* string or a set.
supports_operation(operation, typedef) ==
    IF operation \in {"==", "!=", "in"} THEN TRUE
    ELSE IF operation \in {"<", ">", "<=", ">=", "between"} THEN typedef \in {"S", "N"}
    ELSE IF operation = "begins_with" THEN typedef = "S"
    ELSE typedef \in {"S", "SS"}

\* check_support: TRUE when it returns, FALSE when it raises
check_support(column, operation) ==
    supports_operation(operation, TypedefAt(column.typedef, column.path))

\* ComparisonMixin.__eq__ (also is_) once check_support has passed
eq(column, value) == ComparisonCondition("==", column, value)

-----------------------------------------------------------------------------
(* Rendering a condition.  A render ends with a string, with None (the     *)
(* empty condition) or by raising; the tracker is the one it leaves.       *)

Rendered(tr, text) == [refs |-> tr, kind |-> "str", text |-> text]
RenderedNone(tr) == [refs |-> tr, kind |-> "None", text |-> ""]
Raised(tr, exc) == [refs |-> tr, kind |-> exc, text |-> ""]

\* A variant of ComparisonCondition.render that does not pass the dumped flag.
ComparisonCondition_render_undumped(self, tr) ==
    LET Text(c, v) ==
            IF v.ref.type = "name" \/ v.ref.value.kind # "None"
            THEN Rendered(v.refs, "(" \o c.ref.name \o " " \o
                    comparison_aliases[self.operation] \o " " \o v.ref.name \o ")")
            ELSE IF self.operation \in {"==", "!="}
            THEN Rendered(pop_refs(v.refs, <<v.ref>>),
                    "(" \o (IF self.operation = "==" THEN "attribute_not_exists"
                            ELSE "attribute_exists") \o "(" \o c.ref.name \o "))")
            ELSE Raised(pop_refs(v.refs, <<c.ref, v.ref>>), "InvalidCondition")
        WithColumn(c) ==
            Text(c, any_ref(c.refs, self.column, self.values[1], FALSE, FALSE))
    IN WithColumn(any_ref(tr, self.column, missing, FALSE, FALSE))

\* A variant of ComparisonCondition.render that keeps the value ref of a
\* comparison against None.
ComparisonCondition_render_keep(self, tr) ==
    LET Text(c, v) ==
            IF v.ref.type = "name" \/ v.ref.value.kind # "None"
            THEN Rendered(v.refs, "(" \o c.ref.name \o " " \o
                    comparison_aliases[self.operation] \o " " \o v.ref.name \o ")")
            ELSE IF self.operation \in {"==", "!="}
            THEN Rendered(v.refs,
                    "(" \o (IF self.operation = "==" THEN "attribute_not_exists"
                            ELSE "attribute_exists") \o "(" \o c.ref.name \o "))")
            ELSE Raised(pop_refs(v.refs, <<c.ref, v.ref>>), "InvalidCondition")
        WithColumn(c) ==
            Text(c, any_ref(c.refs, self.column, self.values[1], self.dumped, FALSE))
    IN WithColumn(any_ref(tr, self.column, missing, self.dumped, FALSE))

\* ComparisonCondition.render: column_ref, then value_ref, then the text
ComparisonCondition_render(self, tr) ==
    LET Text(c, v) ==
            IF v.ref.type = "name" \/ v.ref.value.kind # "None"
            THEN Rendered(v.refs, "(" \o c.ref.name \o " " \o
                    comparison_aliases[self.operation] \o " " \o v.ref.name \o ")")
            ELSE IF self.operation \in {"==", "!="}
            THEN Rendered(pop_refs(v.refs, <<v.ref>>),
                    "(" \o (IF self.operation = "==" THEN "attribute_not_exists"
                            ELSE "attribute_exists") \o "(" \o c.ref.name \o "))")
            ELSE Raised(pop_refs(v.refs, <<c.ref, v.ref>>), "InvalidCondition")
        WithColumn(c) ==
            Text(c, any_ref(c.refs, self.column, self.values[1], self.dumped, FALSE))
    IN WithColumn(any_ref(tr, self.column, missing, self.dumped, FALSE))

\* BeginsWithCondition.render
BeginsWithCondition_render(self, tr) ==
    LET Text(c, v) ==
            IF is_empty(v.ref)
            THEN Raised(pop_refs(v.refs, <<c.ref, v.ref>>), "InvalidCondition")
            ELSE Rendered(v.refs,
                    "(begins_with(" \o c.ref.name \o ", " \o v.ref.name \o "))")
        WithColumn(c) ==
            Text(c, any_ref(c.refs, self.column, self.values[1], self.dumped, FALSE))
    IN WithColumn(any_ref(tr, self.column, missing, self.dumped, FALSE))

\* A variant of BetweenCondition.render that takes the value references
\* before the column's.
BetweenCondition_render_valuesfirst(self, tr) ==
    LET Text(c, lo, hi) ==
            IF is_empty(lo.ref) \/ is_empty(hi.ref)
            THEN Raised(pop_refs(c.refs, <<c.ref, lo.ref, hi.ref>>),
                        "InvalidCondition")
            ELSE Rendered(c.refs, "(" \o c.ref.name \o " BETWEEN " \o
                    lo.ref.name \o " AND " \o hi.ref.name \o ")")
        WithUpper(lo, hi) ==
            Text(any_ref(hi.refs, self.column, missing, self.dumped, FALSE), lo, hi)
        WithLower(lo) ==
            WithUpper(lo,
                 any_ref(lo.refs, self.column, self.values[2], self.dumped, FALSE))
    IN WithLower(any_ref(tr, self.column, self.values[1], self.dumped, FALSE))

\* BetweenCondition.render
BetweenCondition_render(self, tr) ==
    LET Text(c, lo, hi) ==
            IF is_empty(lo.ref) \/ is_empty(hi.ref)
            THEN Raised(pop_refs(hi.refs, <<c.ref, lo.ref, hi.ref>>),
                        "InvalidCondition")
            ELSE Rendered(hi.refs, "(" \o c.ref.name \o " BETWEEN " \o
                    lo.ref.name \o " AND " \o hi.ref.name \o ")")
        WithLower(c, lo) ==
            Text(c, lo,
                 any_ref(lo.refs, self.column, self.values[2], self.dumped, FALSE))
        WithColumn(c) ==
            WithLower(c,
                 any_ref(c.refs, self.column, self.values[1], self.dumped, FALSE))
    IN WithColumn(any_ref(tr, self.column, missing, self.dumped, FALSE))

\* ContainsCondition.render: the value is dumped through the inner type
ContainsCondition_render(self, tr) ==
    LET Text(c, v) ==
            IF is_empty(v.ref)
            THEN Raised(pop_refs(v.refs, <<c.ref, v.ref>>), "InvalidCondition")
            ELSE Rendered(v.refs,
                    "(contains(" \o c.ref.name \o ", " \o v.ref.name \o "))")
        WithColumn(c) ==
            Text(c, any_ref(c.refs, self.column, self.values[1], self.dumped, TRUE))
    IN WithColumn(any_ref(tr, self.column, missing, self.dumped, FALSE))

\* The loop of InCondition.render over the values from position i on:
\* it stops at the first value ref that is empty.
RECURSIVE InValueRefs(_, _, _, _)
InValueRefs(self, tr, i, value_refs) ==
    LET Step(v, now) ==
            IF is_empty(v.ref)
            THEN [refs |-> pop_refs(v.refs, now), value_refs |-> now,
                  raised |-> TRUE]
            ELSE InValueRefs(self, v.refs, i + 1, now)
        WithValue(v) == Step(v, Append(value_refs, v.ref))
    IN  IF i > Len(self.values)
        THEN [refs |-> tr, value_refs |-> value_refs, raised |-> FALSE]
        ELSE WithValue(any_ref(tr, self.column, self.values[i], self.dumped, FALSE))

\* InCondition.render: the value refs first, the column ref last
InCondition_render(self, tr) ==
    LET Text(vs, c) ==
            Rendered(c.refs, "(" \o c.ref.name \o " IN (" \o
                JoinWith(", ", [k \in 1..Len(vs.value_refs) |->
                                    vs.value_refs[k].name]) \o "))")
        WithValues(vs) ==
            IF vs.raised THEN Raised(vs.refs, "InvalidCondition")
            ELSE Text(vs, any_ref(vs.refs, self.column, missing, self.dumped, FALSE))
    IN  IF Len(self.values) = 0 THEN Raised(tr, "InvalidCondition")
        ELSE WithValues(InValueRefs(self, tr, 1, << >>))

\* joiner.join(rendered_conditions) of AndCondition.render and
\* OrCondition.render, once every child has rendered: a single child is
\* returned as it is, and str.join raises TypeError on a None item.
JoinRendered(tr, joiner, outs) ==
    IF Len(outs) = 1 THEN [outs[1] EXCEPT !.refs = tr]
    ELSE IF \E k \in 1..Len(outs) : outs[k].kind = "None"
    THEN Raised(tr, "TypeError")
    ELSE Rendered(tr, "(" \o
            JoinWith(joiner, [k \in 1..Len(outs) |-> outs[k].text]) \o ")")

RECURSIVE render(_, _)
RECURSIVE RenderChildren(_, _, _, _)

\* [c.render(renderer) for c in self.values]: left to right, the first
\* child that raises ends the comprehension.
RenderChildren(values, i, tr, outs) ==
    LET Step(r) ==
            IF r.kind \notin {"str", "None"}
            THEN [refs |-> r.refs, outs |-> outs, kind |-> r.kind]
            ELSE RenderChildren(values, i + 1, r.refs,
                    Append(outs, [r EXCEPT !.refs = NewTracker]))
    IN  IF i > Len(values) THEN [refs |-> tr, outs |-> outs, kind |-> "str"]
        ELSE Step(render(values[i], tr))

\* AndCondition.render and OrCondition.render
Connective_render(self, tr, joiner) ==
    LET Join(r) ==
            IF r.kind # "str" THEN Raised(r.refs, r.kind)
            ELSE JoinRendered(r.refs, joiner, r.outs)
    IN  IF Len(self.values) = 0 THEN Raised(tr, "InvalidCondition")
        ELSE Join(RenderChildren(self.values, 1, tr, << >>))

\* NotCondition.render: "(NOT {})".format(None) is the text "(NOT None)"
NotCondition_render(self, tr) ==
    LET Text(r) ==
            IF r.kind = "str" THEN Rendered(r.refs, "(NOT " \o r.text \o ")")
            ELSE IF r.kind = "None" THEN Rendered(r.refs, "(NOT None)")
            ELSE r
    IN Text(render(self.values[1], tr))

\* condition.render(renderer), by the class of the condition
render(self, tr) ==
    IF self.operation = "None" THEN RenderedNone(tr)
    ELSE IF self.operation = "and" THEN Connective_render(self, tr, " AND ")
    ELSE IF self.operation = "or" THEN Connective_render(self, tr, " OR ")
    ELSE IF self.operation = "not" THEN NotCondition_render(self, tr)
    ELSE IF self.operation = "begins_with" THEN BeginsWithCondition_render(self, tr)
    ELSE IF self.operation = "between" THEN BetweenCondition_render(self, tr)
    ELSE IF self.operation = "contains" THEN ContainsCondition_render(self, tr)
    ELSE IF self.operation = "in" THEN InCondition_render(self, tr)
    ELSE ComparisonCondition_render(self, tr)

-----------------------------------------------------------------------------
(* The model class the objects belong to, and Python's order on the names  *)
(* that get sorted.                                                        *)

NoObject == "None"
Objects == {"X"}

\* class User: id = Column(String, hash_key=True, name="pk"),
\*             age = Column(Integer), name = Column(String)
ColId == Column("id", "pk", "S", << >>)
ColAge == Column("age", "age", "N", << >>)
ColName == Column("name", "name", "S", << >>)
MetaColumns == {ColId, ColAge, ColName}
MetaKeys == {ColId}

\* The names in the order of Python's str comparison
StrOrder == <<"a", "age", "b", "data", "id", "name", "pk">>
StrRank(s) == CHOOSE i \in 1..Len(StrOrder) : StrOrder[i] = s

\* A variant of SortByDynamoName that sorts in descending order.
RECURSIVE SortDescending(_)
SortDescending(cols) ==
    IF cols = {} THEN << >>
    ELSE LET first == CHOOSE c \in cols :
                \A d \in cols : StrRank(c.dynamo_name) >= StrRank(d.dynamo_name)
         IN <<first>> \o SortDescending(cols \ {first})

\* sorted(columns, key=lambda col: col.dynamo_name)
RECURSIVE SortByDynamoName(_)
SortByDynamoName(cols) ==
    IF cols = {} THEN << >>
    ELSE LET first == CHOOSE c \in cols :
                \A d \in cols : StrRank(c.dynamo_name) <= StrRank(d.dynamo_name)
         IN <<first>> \o SortByDynamoName(cols \ {first})

\* getattr(obj, column.model_name, None)
GetAttr(at, obj, column) ==
    IF column.model_name \in DOMAIN at[obj] THEN at[obj][column.model_name]
    ELSE None

-----------------------------------------------------------------------------
(* Change-tracking cache *)

\* x is None, for x a condition or None
IsNone(x) == "kind" \in DOMAIN x /\ x.kind = "None"

\* The default entry of _obj_tracking
NewEntry == [marked |-> {}, snapshot |-> None]

\* The loop of sync over the sorted marked columns from position i on
RECURSIVE SyncLoop(_, _, _, _, _)
SyncLoop(at, obj, cols, i, snapshot) ==
    IF i > Len(cols) THEN snapshot
    ELSE LET value == Dump(cols[i].typedef, GetAttr(at, obj, cols[i]))
             condition == SetDumped(eq(cols[i], value))
         IN SyncLoop(at, obj, cols, i + 1, iand_(snapshot, condition))

\* A variant of sync_snapshot that stores no snapshot when nothing is marked.
sync_snapshot_absent(trk, at, obj) ==
    IF trk[obj].marked = {} THEN None
    ELSE SyncLoop(at, obj, SortByDynamoName(trk[obj].marked), 1, Condition)

\* A variant of sync_snapshot that keeps the previous snapshot's conditions.
sync_snapshot_keep(trk, at, obj) ==
    SyncLoop(at, obj, SortByDynamoName(trk[obj].marked), 1,
        IF "snapshot" \in DOMAIN trk[obj] /\ ~IsNone(trk[obj].snapshot)
        THEN trk[obj].snapshot ELSE Condition)

\* The snapshot sync builds
sync_snapshot(trk, at, obj) ==
    SyncLoop(at, obj, SortByDynamoName(trk[obj].marked), 1, Condition)

\* A variant of sync that forgets the marked columns.
sync_clear(trk, at, obj) ==
    [trk EXCEPT ![obj] = [marked |-> {}, snapshot |-> sync_snapshot(trk, at, obj)]]

\* sync(obj, engine)
sync(trk, at, obj) ==
    [trk EXCEPT ![obj] = [marked |-> @.marked,
                          snapshot |-> sync_snapshot(trk, at, obj)]]

\* The loop of get_snapshot over the sorted columns from position i on
RECURSIVE DefaultLoop(_, _, _)
DefaultLoop(cols, i, snapshot) ==
    IF i > Len(cols) THEN snapshot
    ELSE DefaultLoop(cols, i + 1, iand_(snapshot, eq(cols[i], None)))

\* A variant of get_snapshot that returns the default without caching it.
get_snapshot_nocache(trk, obj) ==
    LET Get(cached) ==
            IF ~IsNone(cached) THEN [tracking |-> trk, snapshot |-> cached]
            ELSE [tracking |-> trk,
                  snapshot |-> DefaultLoop(SortByDynamoName(MetaColumns), 1, Condition)]
    IN Get(IF "snapshot" \in DOMAIN trk[obj] THEN trk[obj].snapshot ELSE None)

\* get_snapshot(obj): the snapshot it returns and the cache it leaves
get_snapshot(trk, obj) ==
    LET Cache(snapshot) ==
            [tracking |-> [trk EXCEPT ![obj] =
                            [marked |-> @.marked, snapshot |-> snapshot]],
             snapshot |-> snapshot]
        Get(cached) ==
            IF ~IsNone(cached) THEN [tracking |-> trk, snapshot |-> cached]
            ELSE Cache(DefaultLoop(SortByDynamoName(MetaColumns), 1, Condition))
    IN Get(IF "snapshot" \in DOMAIN trk[obj] THEN trk[obj].snapshot ELSE None)

\* get_marked(obj)
get_marked(trk, obj) == trk[obj].marked

\* A variant of on_object_modified in which the objects share one marked set.
on_object_modified_shared(trk, obj, column) ==
    [o \in DOMAIN trk |-> [trk[o] EXCEPT !.marked = @ \cup {column}]]

\* on_object_modified
on_object_modified(trk, obj, column) ==
    [trk EXCEPT ![obj].marked = @ \cup {column}]

\* A variant of on_object_deleted that drops the marked columns too.
on_object_deleted_clear(trk, obj) ==
    [trk EXCEPT ![obj] = [marked |-> {}]]

\* on_object_deleted
on_object_deleted(trk, obj) ==
    [trk EXCEPT ![obj] = [marked |-> @.marked]]

-----------------------------------------------------------------------------
(* The renderer.  A session is the renderer's tracker and expressions,     *)
(* with the exception, if any, that ended the call.                        *)

\* ConditionRenderer.__init__
NewSession == [refs |-> NewTracker, expressions |-> << >>, raised |-> ""]

\* self.expressions[key] = condition.render(self)
RenderInto(sess, key, condition) ==
    LET Store(r) ==
            IF r.kind \in {"str", "None"}
            THEN [sess EXCEPT !.refs = r.refs,
                              !.expressions =
                                Put(@, key, [kind |-> r.kind, text |-> r.text])]
            ELSE [sess EXCEPT !.refs = r.refs, !.raised = r.kind]
    IN Store(render(condition, sess.refs))

render_condition_expression(sess, condition) ==
    RenderInto(sess, "ConditionExpression", condition)
render_filter_expression(sess, condition) ==
    RenderInto(sess, "FilterExpression", condition)
render_key_expression(sess, condition) ==
    RenderInto(sess, "KeyConditionExpression", condition)

\* The loop of render_projection_expression from position i on:
\* `column in included` hashes the column, and a proxy ends the loop with
\* TypeError, the names of the columns before it still referenced
RECURSIVE ProjectionLoop(_, _, _, _, _)
ProjectionLoop(tr, columns, i, included, ref_names) ==
    IF i > Len(columns) THEN [refs |-> tr, ref_names |-> ref_names, raised |-> ""]
    ELSE IF ~Hashable(columns[i])
    THEN [refs |-> tr, ref_names |-> ref_names, raised |-> "TypeError"]
    ELSE IF columns[i] \in included
    THEN ProjectionLoop(tr, columns, i + 1, included, ref_names)
    ELSE LET Go(r) ==
                ProjectionLoop(r.refs, columns, i + 1, included \cup {columns[i]},
                    Append(ref_names, r.ref.name))
         IN Go(any_ref(tr, columns[i], missing, FALSE, FALSE))

\* ConditionRenderer.render_projection_expression: the expression is stored
\* after the loop, so not when the loop raised
render_projection_expression(sess, columns) ==
    LET Store(r) ==
            IF r.raised # "" THEN [sess EXCEPT !.refs = r.refs, !.raised = r.raised]
            ELSE [sess EXCEPT !.refs = r.refs,
                              !.expressions = Put(@, "ProjectionExpression",
                                 [kind |-> "str", text |-> JoinWith(", ", r.ref_names)])]
    IN Store(ProjectionLoop(sess.refs, columns, 1, {}, << >>))

\* A variant of UpdateLoop that keeps the value reference of a removed
\* column.
RECURSIVE UpdateLoop_keepvalue(_, _, _, _, _, _)
UpdateLoop_keepvalue(tr, at, obj, cols, i, updates) ==
    LET Record(n, v) ==
            IF is_empty(v.ref)
            THEN UpdateLoop_keepvalue(v.refs, at, obj, cols, i + 1,
                    [updates EXCEPT !.remove = Append(@, n.ref.name)])
            ELSE UpdateLoop_keepvalue(v.refs, at, obj, cols, i + 1,
                    [updates EXCEPT !.set =
                        Append(@, n.ref.name \o "=" \o v.ref.name)])
        WithName(n) ==
            Record(n, any_ref(n.refs, cols[i], GetAttr(at, obj, cols[i]),
                              FALSE, FALSE))
    IN  IF i > Len(cols) THEN [refs |-> tr, updates |-> updates]
        ELSE WithName(any_ref(tr, cols[i], missing, FALSE, FALSE))

\* The loop of render_update_expression over the sorted columns
RECURSIVE UpdateLoop(_, _, _, _, _, _)
UpdateLoop(tr, at, obj, cols, i, updates) ==
    LET Record(n, v) ==
            IF is_empty(v.ref)
            THEN UpdateLoop(pop_refs(v.refs, <<v.ref>>), at, obj, cols, i + 1,
                    [updates EXCEPT !.remove = Append(@, n.ref.name)])
            ELSE UpdateLoop(v.refs, at, obj, cols, i + 1,
                    [updates EXCEPT !.set =
                        Append(@, n.ref.name \o "=" \o v.ref.name)])
        WithName(n) ==
            Record(n, any_ref(n.refs, cols[i], GetAttr(at, obj, cols[i]),
                              FALSE, FALSE))
    IN  IF i > Len(cols) THEN [refs |-> tr, updates |-> updates]
        ELSE WithName(any_ref(tr, cols[i], missing, FALSE, FALSE))

\* A variant of UpdateColumns that lets key columns through.
UpdateColumns_keys(marked) == SortByDynamoName(marked)

\* The columns render_update_expression walks: the marked columns that are
\* not keys, sorted by dynamo_name
UpdateColumns(marked) == SortByDynamoName({c \in marked : c \notin MetaKeys})

\* A variant of UpdateText that writes REMOVE before SET.
UpdateText_removefirst(updates) ==
    IF Len(updates.set) > 0 /\ Len(updates.remove) > 0
    THEN "REMOVE " \o JoinWith(", ", updates.remove) \o " SET " \o
         JoinWith(", ", updates.set)
    ELSE IF Len(updates.set) > 0 THEN "SET " \o JoinWith(", ", updates.set)
    ELSE IF Len(updates.remove) > 0 THEN "REMOVE " \o JoinWith(", ", updates.remove)
    ELSE ""

\* The text render_update_expression assembles, stripped: the space before
\* REMOVE is a leading one exactly when there is no SET clause.
UpdateText(updates) ==
    IF Len(updates.set) > 0 /\ Len(updates.remove) > 0
    THEN "SET " \o JoinWith(", ", updates.set) \o " REMOVE " \o
         JoinWith(", ", updates.remove)
    ELSE IF Len(updates.set) > 0 THEN "SET " \o JoinWith(", ", updates.set)
    ELSE IF Len(updates.remove) > 0 THEN "REMOVE " \o JoinWith(", ", updates.remove)
    ELSE ""

\* ConditionRenderer.render_update_expression
render_update_expression(sess, trk, at, obj) ==
    LET Store(tr, expression) ==
            IF expression # ""
            THEN [sess EXCEPT !.refs = tr,
                              !.expressions = Put(@, "UpdateExpression",
                                    [kind |-> "str", text |-> expression])]
            ELSE [sess EXCEPT !.refs = tr]
        Write(r) == Store(r.refs, UpdateText(r.updates))
    IN Write(UpdateLoop(sess.refs, at, obj, UpdateColumns(get_marked(trk, obj)),
                        1, [set |-> << >>, remove |-> << >>]))

\* bool(x) for an argument that is a condition or None
ArgTruthy(x) == IF IsNone(x) THEN FALSE ELSE Truthy(x)

\* A variant of EffectiveCondition that leaves the snapshot out.
EffectiveCondition_nosnapshot(condition, atomic, snapshot) ==
    and_(IF ArgTruthy(condition) THEN condition ELSE Condition, Condition)

\* (condition or Condition()) & (get_snapshot(obj) if atomic else Condition())
EffectiveCondition(condition, atomic, snapshot) ==
    and_(IF ArgTruthy(condition) THEN condition ELSE Condition,
         IF atomic THEN snapshot ELSE Condition)

\* ConditionRenderer.render: the session and the cache it leaves
ConditionRenderer_render(sess, trk, at, args) ==
    IF (args.atomic \/ args.update) /\ args.obj = NoObject
    THEN [session |-> [sess EXCEPT !.raised = "InvalidCondition"], tracking |-> trk]
    ELSE
    LET Update(s, trk2) ==
            [session |-> IF s.raised = "" /\ args.update
                         THEN render_update_expression(s, trk2, at, args.obj)
                         ELSE s,
             tracking |-> trk2]
        WithCondition(s, trk2, condition) ==
            Update(IF s.raised = "" /\ Truthy(condition)
                   THEN render_condition_expression(s, condition) ELSE s, trk2)
        WithSnapshot(s, snap) ==
            WithCondition(s, snap.tracking,
                EffectiveCondition(args.condition, args.atomic, snap.snapshot))
        ConditionStep(s) ==
            WithSnapshot(s, IF s.raised = "" /\ args.atomic
                            THEN get_snapshot(trk, args.obj)
                            ELSE [tracking |-> trk, snapshot |-> Condition])
        KeyStep(s) ==
            ConditionStep(IF s.raised = "" /\ ArgTruthy(args.key)
                          THEN render_key_expression(s, args.key) ELSE s)
        ProjectionStep(s) ==
            KeyStep(IF s.raised = "" /\ Len(args.projection) > 0
                    THEN render_projection_expression(s, args.projection) ELSE s)
    IN ProjectionStep(IF ArgTruthy(args.filter)
                      THEN render_filter_expression(sess, args.filter) ELSE sess)

\* ConditionRenderer.rendered
rendered(exprs, tr) ==
    LET keys == {k \in DOMAIN exprs : exprs[k].kind # "None"}
        names == IF DOMAIN tr.attr_names # {}
                 THEN {"ExpressionAttributeNames"} ELSE {}
        values == IF DOMAIN tr.attr_values # {}
                  THEN {"ExpressionAttributeValues"} ELSE {}
    IN [k \in keys \cup names \cup values |->
          IF k = "ExpressionAttributeNames" THEN tr.attr_names
          ELSE IF k = "ExpressionAttributeValues" THEN tr.attr_values
          ELSE exprs[k].text]

-----------------------------------------------------------------------------
(* Inputs *)

\* At most MaxSteps fragments are rendered in one session
MaxSteps == 2

\* The values an attribute is set to: "" is a string that dumps to None
SetValues(column) ==
    IF column = ColId THEN {Lit("k")}
    ELSE IF column = ColAge THEN {Lit("3")}
    ELSE {Lit("x"), Lit("")}

\* A document column and proxies of it with nested paths
ColData == Column("data", "data", "Map", << >>)
DataA0 == GetItem(GetItem(ColData, KeySeg("a")), IdxSeg(0))
DataAB == GetItem(GetItem(ColData, KeySeg("a")), KeySeg("b"))
LeafColumns == {ColAge, DataA0, DataAB}

OrderingOps == {"<", ">", "<=", ">="}

\* The leaves rendered in a session
Leaves ==
    UNION {
        {ComparisonCondition(op, col, None) :
            op \in OrderingOps \cup {"==", "!="}}
        \cup {ComparisonCondition(op, col, Lit("3")) : op \in {"<", "=="}}
        \cup {ComparisonCondition("!=", col, Lit("set()")),
              SetDumped(ComparisonCondition("==", col, None)),
              ComparisonCondition("<", col, ColValue(ColAge))}
        \cup {BeginsWithCondition(col, v) : v \in {None, Lit("3")}}
        \cup {ContainsCondition(col, v) : v \in {None, Lit("3")}}
        \cup {BetweenCondition(col, Lit("3"), None),
              BetweenCondition(col, None, Lit("3")),
              BetweenCondition(col, Lit("3"), Lit("3"))}
        \cup {InCondition(col, <<Lit("3"), None>>),
              InCondition(col, <<Lit("3")>>)}
        : col \in LeafColumns}

\* Conditions handed to a render call
LeafAge == ComparisonCondition("<", ColAge, Lit("3"))
LeafName == ComparisonCondition("==", ColName, Lit("x"))
EmptyConnectives ==
    {AndCondition(<< >>), OrCondition(<< >>),
     AndCondition(<<AndCondition(<< >>)>>),
     OrCondition(<<LeafAge, OrCondition(<< >>)>>),
     NotCondition(AndCondition(<< >>))}
ExplicitConditions ==
    {None, Condition, LeafAge, AndCondition(<<LeafAge, LeafName>>),
     OrCondition(<<LeafAge, LeafName>>), NotCondition(LeafName),
     ComparisonCondition("<", ColAge, None)}

NoArgs ==
    [obj |-> NoObject, filter |-> None, projection |-> << >>, key |-> None,
     atomic |-> FALSE, condition |-> None, update |-> FALSE]

\* The argument lists of the render calls
Calls ==
    {[NoArgs EXCEPT !.obj = "X", !.filter = c] : c \in EmptyConnectives}
    \cup {[NoArgs EXCEPT !.obj = "X", !.key = c] : c \in EmptyConnectives}
    \cup {[NoArgs EXCEPT !.obj = "X", !.condition = c, !.atomic = a, !.update = u] :
            c \in ExplicitConditions \cup EmptyConnectives,
            a \in BOOLEAN, u \in BOOLEAN}
    \cup {[NoArgs EXCEPT !.filter = LeafAge, !.projection = <<ColAge>>,
                         !.atomic = a, !.update = ~a] : a \in BOOLEAN}
    \cup {[obj |-> "X", filter |-> LeafAge, projection |-> <<ColAge, ColName>>,
           key |-> ComparisonCondition("==", ColId, Lit("k")),
           atomic |-> a, condition |-> c, update |-> u] :
            c \in {None, LeafName}, a \in BOOLEAN, u \in BOOLEAN}
    \cup {[NoArgs EXCEPT !.obj = "X", !.filter = LeafAge,
                         !.projection = <<ColAge, DataA0>>, !.update = TRUE]}

-----------------------------------------------------------------------------
(* Conditions as objects.  Each node lives in the heap under its identity; *)
(* the values list of an and/or/not holds references to its children, so   *)
(* that a list extended in place is seen through every name of the node.   *)

Ref(id) == [kind |-> "ref", id |-> id]

\* The objects of a values list
Children(h, id) == [k \in 1..Len(h[id].values) |-> h[id].values[k].id]

\* A new object
Alloc(h, node) == [heap |-> Append(h, node), id |-> Len(h) + 1]

\* reversed(values)
Reversed(seq) == [k \in 1..Len(seq) |-> seq[Len(seq) + 1 - k]]

\* The loop of iter_conditions: conditions is the stack, popped at its end,
\* visited the set of objects seen, yielded what was yielded so far
RECURSIVE IterLoop(_, _, _, _)
IterLoop(h, conditions, visited, yielded) ==
    LET Visit(c, rest) ==
            IF c \in visited THEN IterLoop(h, rest, visited, yielded)
            ELSE IterLoop(h,
                    IF h[c].operation \in {"and", "or", "not"}
                    THEN rest \o Reversed(Children(h, c)) ELSE rest,
                    visited \cup {c}, Append(yielded, c))
    IN IF Len(conditions) = 0 THEN yielded
       ELSE Visit(conditions[Len(conditions)],
                  SubSeq(conditions, 1, Len(conditions) - 1))

\* iter_conditions(condition) on objects: the root of an and/or/not is not
\* yielded unless a cycle leads back to it
iter_conditions_of(h, id) ==
    IterLoop(h,
        IF h[id].operation \in {"and", "or"} THEN Reversed(Children(h, id))
        ELSE IF h[id].operation = "not" THEN Children(h, id)
        ELSE <<id>>,
        {}, << >>)

\* No generator has been created
NoIter == [pc |-> "idle", root |-> 0, conditions |-> << >>, visited |-> {},
           yielded |-> << >>]

\* g = iter_conditions(condition): the generator is made and none of its
\* body has run
NewIter(id) ==
    [pc |-> "created", root |-> id, conditions |-> << >>, visited |-> {},
     yielded |-> << >>]

\* The first next(g) runs the head of iter_conditions: conditions = list()
\* filled from the values the root has then, visited = set()
IterEnter(h, it) ==
    [it EXCEPT !.conditions =
                  IF h[it.root].operation \in {"and", "or"}
                  THEN Reversed(Children(h, it.root))
                  ELSE IF h[it.root].operation = "not"
                  THEN <<Children(h, it.root)[1]>>
                  ELSE <<it.root>>,
               !.visited = {}]

\* A later next(g) resumes after the yield: the children the yielded
\* and/or/not has now are pushed
IterResume(h, it) ==
    LET Push(c) ==
            IF h[c].operation \in {"and", "or", "not"}
            THEN [it EXCEPT !.conditions = @ \o Reversed(Children(h, c))]
            ELSE it
    IN Push(it.yielded[Len(it.yielded)])

\* A variant of IterBody that does not look at the visited set.
IterBody_revisit(h, it) ==
    LET Visit(c, rest) ==
            [it EXCEPT !.pc = "suspended", !.conditions = rest,
                       !.visited = @ \cup {c}, !.yielded = Append(@, c)]
    IN IF Len(it.conditions) = 0 THEN [it EXCEPT !.pc = "done"]
       ELSE Visit(it.conditions[Len(it.conditions)],
                  SubSeq(it.conditions, 1, Len(it.conditions) - 1))

\* The while loop of iter_conditions up to where the generator stops: it
\* pops from the end of the stack down to the first object that is not in
\* visited, marks that object and is suspended at its yield; when the stack
\* runs empty the generator returns
IterBody(h, it) ==
    LET New == {i \in 1..Len(it.conditions) : it.conditions[i] \notin it.visited}
        Visit(n) ==
            [it EXCEPT !.pc = "suspended",
                       !.conditions = SubSeq(@, 1, n - 1),
                       !.visited = @ \cup {it.conditions[n]},
                       !.yielded = Append(@, it.conditions[n])]
    IN IF New = {} THEN [it EXCEPT !.pc = "done", !.conditions = << >>]
       ELSE Visit(CHOOSE n \in New : \A m \in New : m <= n)

\* next(g) on a generator of iter_conditions that has not returned
iter_conditions_next(h, it) ==
    IterBody(h, IF it.pc = "created" THEN IterEnter(h, it) ELSE IterResume(h, it))

\* g = iter_columns(condition): the generator is made and none of its body
\* has run
NewColumnsIter(id) ==
    [pc |-> "created", root |-> id, inner |-> NoIter, visited |-> {},
     leaf |-> 0, k |-> 0, yielded |-> << >>, raised |-> ""]

\* The for loop of iter_columns over iter_conditions up to where the
\* generator stops: connectives and leaves whose column was seen are passed
\* over, the values of those leaves with them; a new column is marked and
\* yielded; hashing a proxy raises TypeError
RECURSIVE ColumnsLoop(_, _)
ColumnsLoop(h, g) ==
    LET Got(inner) ==
            IF inner.pc = "done" THEN [g EXCEPT !.pc = "done", !.inner = inner]
            ELSE IF h[inner.yielded[Len(inner.yielded)]].operation \in {"and", "or", "not"}
            THEN ColumnsLoop(h, [g EXCEPT !.inner = inner])
            ELSE IF ~Hashable(h[inner.yielded[Len(inner.yielded)]].column)
            THEN [g EXCEPT !.pc = "done", !.inner = inner, !.raised = "TypeError"]
            ELSE IF h[inner.yielded[Len(inner.yielded)]].column \notin g.visited
            THEN [g EXCEPT !.pc = "suspended", !.inner = inner,
                           !.leaf = inner.yielded[Len(inner.yielded)], !.k = 1,
                           !.visited = @ \cup {h[inner.yielded[Len(inner.yielded)]].column},
                           !.yielded = Append(@, h[inner.yielded[Len(inner.yielded)]].column)]
            ELSE ColumnsLoop(h, [g EXCEPT !.inner = inner])
    IN Got(iter_conditions_next(h, g.inner))

\* The loop of iter_columns over the values of the leaf it is at, from
\* position k on: a value that is a column and has not been seen is marked
\* and yielded; after the last value the outer loop goes on
RECURSIVE ColumnValues(_, _)
ColumnValues(h, g) ==
    LET Value(value) ==
            IF ~IsColumn(value) THEN ColumnValues(h, [g EXCEPT !.k = @ + 1])
            ELSE IF ~Hashable(value.col)
            THEN [g EXCEPT !.pc = "done", !.raised = "TypeError"]
            ELSE IF value.col \notin g.visited
            THEN [g EXCEPT !.pc = "suspended", !.k = @ + 1,
                           !.visited = @ \cup {value.col},
                           !.yielded = Append(@, value.col)]
            ELSE ColumnValues(h, [g EXCEPT !.k = @ + 1])
    IN IF g.k > Len(h[g.leaf].values) THEN ColumnsLoop(h, g)
       ELSE Value(h[g.leaf].values[g.k])

\* next(g) on a generator of iter_columns that has not returned: the first
\* one makes visited = set() and the generator of iter_conditions
iter_columns_next(h, g) ==
    IF g.pc = "created" THEN ColumnsLoop(h, [g EXCEPT !.inner = NewIter(g.root)])
    ELSE ColumnValues(h, g)

\* list(iter_columns(condition)) on conditions nobody changes meanwhile: the
\* generator when it has returned or raised
RECURSIVE ColumnsExhaust(_, _)
ColumnsExhaust(h, g) ==
    IF g.pc = "done" THEN g ELSE ColumnsExhaust(h, iter_columns_next(h, g))

iter_columns(h, id) == ColumnsExhaust(h, NewColumnsIter(id))

\* len(condition): __len__ of the object's class
RECURSIVE len(_, _)
len(h, id) ==
    IF h[id].operation = "None" THEN 0
    ELSE IF h[id].operation \in {"and", "or"} THEN Len(iter_conditions_of(h, id))
    ELSE IF h[id].operation = "not" THEN len(h, h[id].values[1].id)
    ELSE 1

\* bool(condition)
truth(h, id) == len(h, id) > 0

\* A variant of Combine that always wraps its two operands in a new node.
Combine_wrap(h, self, other, operation) ==
    IF ~truth(h, other) THEN [heap |-> h, id |-> self]
    ELSE IF ~truth(h, self) THEN [heap |-> h, id |-> other]
    ELSE Alloc(h, BaseCondition(operation, NoColumn,
                                <<Ref(self), Ref(other)>>, FALSE))

\* BaseCondition.__and__ (operation "and") and BaseCondition.__or__
\* (operation "or"): the object returned and the heap with it
Combine(h, self, other, operation) ==
    IF ~truth(h, other) THEN [heap |-> h, id |-> self]
    ELSE IF ~truth(h, self) THEN [heap |-> h, id |-> other]
    ELSE IF h[self].operation = operation /\ h[other].operation = operation
    THEN Alloc(h, BaseCondition(operation, NoColumn,
                                h[self].values \o h[other].values, FALSE))
    ELSE IF h[self].operation = operation
    THEN Alloc(h, BaseCondition(operation, NoColumn,
                                Append(h[self].values, Ref(other)), FALSE))
    ELSE IF h[other].operation = operation
    THEN Alloc(h, BaseCondition(operation, NoColumn,
                                <<Ref(self)>> \o h[other].values, FALSE))
    ELSE Alloc(h, BaseCondition(operation, NoColumn,
                                <<Ref(self), Ref(other)>>, FALSE))

\* A variant of CombineInPlace that appends the right operand whole, also
\* when it is a node of the same operation.
CombineInPlace_nosplice(h, self, other, operation) ==
    IF ~truth(h, other) THEN [heap |-> h, id |-> self]
    ELSE IF ~truth(h, self) THEN [heap |-> h, id |-> other]
    ELSE IF h[self].operation = operation
    THEN [heap |-> [h EXCEPT ![self].values = Append(@, Ref(other))], id |-> self]
    ELSE Alloc(h, BaseCondition(operation, NoColumn,
                                <<Ref(self), Ref(other)>>, FALSE))

\* BaseCondition.__iand__ and BaseCondition.__ior__: the object bound to the
\* left name afterwards; self.values is extended in place
CombineInPlace(h, self, other, operation) ==
    IF ~truth(h, other) THEN [heap |-> h, id |-> self]
    ELSE IF ~truth(h, self) THEN [heap |-> h, id |-> other]
    ELSE IF h[self].operation = operation /\ h[other].operation = operation
    THEN [heap |-> [h EXCEPT ![self].values = @ \o h[other].values], id |-> self]
    ELSE IF h[self].operation = operation
    THEN [heap |-> [h EXCEPT ![self].values = Append(@, Ref(other))], id |-> self]
    ELSE IF h[other].operation = operation
    THEN Alloc(h, BaseCondition(operation, NoColumn,
                                <<Ref(self)>> \o h[other].values, FALSE))
    ELSE Alloc(h, BaseCondition(operation, NoColumn,
                                <<Ref(self), Ref(other)>>, FALSE))

\* A variant of invert that never cancels a negation.
invert_wrap(h, self) ==
    IF h[self].operation = "None" THEN [heap |-> h, id |-> self]
    ELSE Alloc(h, NotCondition(Ref(self)))

\* BaseCondition.__invert__
invert(h, self) ==
    IF h[self].operation = "None" THEN [heap |-> h, id |-> self]
    ELSE IF h[self].operation = "not" THEN [heap |-> h, id |-> h[self].values[1].id]
    ELSE Alloc(h, NotCondition(Ref(self)))

\* BaseCondition.__eq__: the same object, or the same operation, the same
\* proxied column and path, and values equal one by one: two values that
\* are columns must be the same object (s is o), other values are compared
\* with ==; dumped is not compared
RECURSIVE BaseCondition_eq(_, _, _)
BaseCondition_eq(h, self, other) ==
    LET ValueEq(s, o) ==
            IF s.kind = "col" /\ o.kind = "col" THEN s = o
            ELSE IF s.kind = "col" \/ o.kind = "col" THEN FALSE
            ELSE IF s.kind = "ref" /\ o.kind = "ref"
            THEN BaseCondition_eq(h, s.id, o.id)
            ELSE s = o
    IN IF self = other THEN TRUE
       ELSE IF h[self].operation # h[other].operation THEN FALSE
       ELSE IF (h[self].column = NoColumn) # (h[other].column = NoColumn) THEN FALSE
       ELSE IF h[self].column # NoColumn
               /\ ([h[self].column EXCEPT !.path = << >>]
                     # [h[other].column EXCEPT !.path = << >>]
                   \/ h[self].column.path # h[other].column.path)
       THEN FALSE
       ELSE IF Len(h[self].values) # Len(h[other].values) THEN FALSE
       ELSE \A k \in 1..Len(h[self].values) :
               ValueEq(h[self].values[k], h[other].values[k])

\* The objects every session starts with: the empty condition, two leaves,
\* an AND and an OR of them, and a connective built with no children
BaseHeap ==
    <<Condition, LeafAge, LeafName,
      AndCondition(<<Ref(2), Ref(3)>>), OrCondition(<<Ref(2), Ref(3)>>),
      AndCondition(<< >>)>>

\* The names the caller binds conditions to
Names == {"x", "y"}

\* At most MaxOps operators are applied
MaxOps == 2

\* The comparison methods of ComparisonMixin (in is the method in_)
ComparisonMethods ==
    {"==", "!=", "<", ">", "<=", ">=", "begins_with", "between", "contains", "in"}

\* The condition a comparison method builds once check_support has passed
ComparisonLeaf(column, operation, value, upper) ==
    IF operation = "begins_with" THEN BeginsWithCondition(column, value)
    ELSE IF operation = "between" THEN BetweenCondition(column, value, upper)
    ELSE IF operation = "contains" THEN ContainsCondition(column, value)
    ELSE IF operation = "in" THEN InCondition(column, <<value, upper>>)
    ELSE ComparisonCondition(operation, column, value)

\* column.<method>(value[, upper]): check_support raises InvalidCondition,
\* else the leaf is returned
compare(column, operation, value, upper) ==
    IF check_support(column, operation)
    THEN [raised |-> "", condition |-> ComparisonLeaf(column, operation, value, upper)]
    ELSE [raised |-> "InvalidCondition", condition |-> None]

\* The columns compared and the values they are compared with
ComparedColumns == MetaColumns \cup {ColData, DataA0, DataAB}
ComparedValues == {Lit("3"), None}

-----------------------------------------------------------------------------
(* Render calls made by threads.  render() builds a renderer, the renderer *)
(* a tracker; the threads take turns between the steps of                  *)
(* ConditionRenderer.render.                                               *)

Threads == {1, 2}

\* A thread that has not called render
IdleThread ==
    [pc |-> "idle", args |-> NoArgs, refs |-> 0, expressions |-> << >>,
     raised |-> "", result |-> None]

NoCalls == [trackers |-> << >>, threads |-> [t \in Threads |-> IdleThread]]

\* A variant of NewRenderer that hands every renderer the first tracker built.
NewRenderer_shared(trackers) ==
    IF Len(trackers) = 0
    THEN [trackers |-> Append(trackers, NewTracker), refs |-> 1]
    ELSE [trackers |-> trackers, refs |-> 1]

\* ConditionRenderer.__init__: self.refs = ReferenceTracker(engine), a new
\* object; refs is its identity
NewRenderer(trackers) ==
    [trackers |-> Append(trackers, NewTracker), refs |-> Len(trackers) + 1]

\* The steps of ConditionRenderer.render in their order, then rendered
NextPc(pc) ==
    IF pc = "check" THEN "filter"
    ELSE IF pc = "filter" THEN "projection"
    ELSE IF pc = "projection" THEN "key"
    ELSE IF pc = "key" THEN "condition"
    ELSE IF pc = "condition" THEN "update"
    ELSE IF pc = "update" THEN "rendered"
    ELSE "done"

\* A variant of RenderStep that asks for the object only when it comes to
\* the condition.
RenderStep_latecheck(sess, trk, at, args, pc) ==
    LET Keep(s) == [session |-> s, tracking |-> trk]
        WithSnapshot(snap) ==
            [session |->
                IF Truthy(EffectiveCondition(args.condition, args.atomic, snap.snapshot))
                THEN render_condition_expression(sess,
                        EffectiveCondition(args.condition, args.atomic, snap.snapshot))
                ELSE sess,
             tracking |-> snap.tracking]
    IN  IF pc = "check" THEN Keep(sess)
        ELSE IF pc = "filter"
        THEN Keep(IF ArgTruthy(args.filter)
                  THEN render_filter_expression(sess, args.filter) ELSE sess)
        ELSE IF pc = "projection"
        THEN Keep(IF Len(args.projection) > 0
                  THEN render_projection_expression(sess, args.projection) ELSE sess)
        ELSE IF pc = "key"
        THEN Keep(IF ArgTruthy(args.key)
                  THEN render_key_expression(sess, args.key) ELSE sess)
        ELSE IF (args.atomic \/ args.update) /\ args.obj = NoObject
        THEN Keep([sess EXCEPT !.raised = "InvalidCondition"])
        ELSE IF pc = "condition"
        THEN WithSnapshot(IF args.atomic THEN get_snapshot(trk, args.obj)
                          ELSE [tracking |-> trk, snapshot |-> Condition])
        ELSE Keep(IF args.update
                  THEN render_update_expression(sess, trk, at, args.obj) ELSE sess)

\* One step of ConditionRenderer.render on the session sess: the session and
\* the cache it leaves
RenderStep(sess, trk, at, args, pc) ==
    LET Keep(s) == [session |-> s, tracking |-> trk]
        WithSnapshot(snap) ==
            [session |->
                IF Truthy(EffectiveCondition(args.condition, args.atomic, snap.snapshot))
                THEN render_condition_expression(sess,
                        EffectiveCondition(args.condition, args.atomic, snap.snapshot))
                ELSE sess,
             tracking |-> snap.tracking]
    IN  IF pc = "check"
        THEN Keep(IF (args.atomic \/ args.update) /\ args.obj = NoObject
                  THEN [sess EXCEPT !.raised = "InvalidCondition"] ELSE sess)
        ELSE IF pc = "filter"
        THEN Keep(IF ArgTruthy(args.filter)
                  THEN render_filter_expression(sess, args.filter) ELSE sess)
        ELSE IF pc = "projection"
        THEN Keep(IF Len(args.projection) > 0
                  THEN render_projection_expression(sess, args.projection) ELSE sess)
        ELSE IF pc = "key"
        THEN Keep(IF ArgTruthy(args.key)
                  THEN render_key_expression(sess, args.key) ELSE sess)
        ELSE IF pc = "condition"
        THEN WithSnapshot(IF args.atomic THEN get_snapshot(trk, args.obj)
                          ELSE [tracking |-> trk, snapshot |-> Condition])
        ELSE Keep(IF args.update
                  THEN render_update_expression(sess, trk, at, args.obj) ELSE sess)

-----------------------------------------------------------------------------
(* The system: objects are mutated, synced and deleted, and render calls   *)
(* are made on them, each in a session of its own.                         *)

Result(op, args, raised, result) ==
    [op |-> op, args |-> args, raised |-> raised, result |-> result]

\* No call is in progress and no result is waiting for the caller
Idle == Result("idle", NoArgs, "", None)

Init ==
    /\ tracking = [o \in Objects |-> NewEntry]
    /\ attrs = [o \in Objects |-> << >>]
    /\ refs = NewTracker
    /\ expressions = << >>
    /\ outcome = Idle
    /\ steps = 0
    /\ heap = BaseHeap
    /\ env = [n \in Names |-> 1]
    /\ calls = NoCalls
    /\ iter = NoIter

\* Column.set: store the value, then mark the column
SetAttr(obj, column, value) ==
    /\ outcome = Idle
    /\ attrs' = [attrs EXCEPT ![obj] = Put(@, column.model_name, value)]
    /\ tracking' = on_object_modified(tracking, obj, column)
    /\ outcome' = Result("set", [obj |-> obj, column |-> column, value |-> value],
                         "", None)
    /\ UNCHANGED <<refs, expressions, steps, heap, env, calls, iter>>

\* Column.delete: try super().delete(obj), which drops the value or, when
\* the object has none, raises AttributeError; finally the column is marked,
\* and the exception goes on to the caller
DelAttr(obj, column) ==
    /\ outcome = Idle
    /\ attrs' = [attrs EXCEPT ![obj] = Del(@, column.model_name)]
    /\ tracking' = on_object_modified(tracking, obj, column)
    /\ outcome' = Result("delete_attr", [obj |-> obj, column |-> column],
                         IF column.model_name \in DOMAIN attrs[obj] THEN ""
                         ELSE "AttributeError", None)
    /\ UNCHANGED <<refs, expressions, steps, heap, env, calls, iter>>

\* on_object_loaded, on_object_saved: sync(obj, engine)
Sync(obj) ==
    /\ outcome = Idle
    /\ tracking' = sync(tracking, attrs, obj)
    /\ outcome' = Result("sync", [obj |-> obj], "", None)
    /\ UNCHANGED <<attrs, refs, expressions, steps, heap, env, calls, iter>>

GetSnapshot(obj) ==
    LET Got(r) ==
            /\ tracking' = r.tracking
            /\ outcome' = Result("get_snapshot", [obj |-> obj], "", r.snapshot)
    IN
    /\ outcome = Idle
    /\ Got(get_snapshot(tracking, obj))
    /\ UNCHANGED <<attrs, refs, expressions, steps, heap, env, calls, iter>>

GetMarked(obj) ==
    /\ outcome = Idle
    /\ outcome' = Result("get_marked", [obj |-> obj], "",
                         get_marked(tracking, obj))
    /\ UNCHANGED <<tracking, attrs, refs, expressions, steps, heap, env, calls, iter>>

OnObjectDeleted(obj) ==
    /\ outcome = Idle
    /\ tracking' = on_object_deleted(tracking, obj)
    /\ outcome' = Result("on_delete", [obj |-> obj], "", None)
    /\ UNCHANGED <<attrs, refs, expressions, steps, heap, env, calls, iter>>

\* render(engine, obj, filter, projection, key, atomic, condition, update):
\* a renderer of its own, and renderer.rendered as the result unless the
\* call raised
RenderCall(args) ==
    LET Done(r) ==
            /\ tracking' = r.tracking
            /\ outcome' = Result("render", args, r.session.raised,
                            IF r.session.raised = ""
                            THEN rendered(r.session.expressions, r.session.refs)
                            ELSE None)
    IN
    /\ outcome = Idle
    /\ Done(ConditionRenderer_render(NewSession, tracking, attrs, args))
    /\ UNCHANGED <<attrs, refs, expressions, steps, heap, env, calls, iter>>

\* The caller takes the result of the call
Return ==
    /\ outcome # Idle
    /\ outcome' = Idle
    /\ UNCHANGED <<tracking, attrs, refs, expressions, steps, heap, env, calls, iter>>

Next ==
    \/ \E obj \in Objects, column \in MetaColumns :
          \E value \in SetValues(column) : SetAttr(obj, column, value)
    \/ \E obj \in Objects, column \in MetaColumns : DelAttr(obj, column)
    \/ \E obj \in Objects : Sync(obj)
    \/ \E obj \in Objects : GetSnapshot(obj)
    \/ \E obj \in Objects : GetMarked(obj)
    \/ \E obj \in Objects : OnObjectDeleted(obj)
    \/ \E args \in Calls : RenderCall(args)
    \/ Return

Spec == Init /\ [][Next]_vars

\* The states an object is rendered in: never touched; name set and age deleted;
\* the same, then synced
ModifiedAttrs == [o \in Objects |-> Put(<< >>, "name", Lit("x"))]
ModifiedTracking ==
    on_object_modified(
        on_object_modified([o \in Objects |-> NewEntry], "X", ColName),
        "X", ColAge)
TrackedStates ==
    {[tracking |-> [o \in Objects |-> NewEntry], attrs |-> [o \in Objects |-> << >>]],
     [tracking |-> ModifiedTracking, attrs |-> ModifiedAttrs],
     [tracking |-> sync(ModifiedTracking, ModifiedAttrs, "X"), attrs |-> ModifiedAttrs]}

-----------------------------------------------------------------------------
(* One render session: the caller renders fragments one after another on   *)
(* the same renderer and catches the InvalidCondition a fragment raises.   *)

\* renderer.render_filter_expression(condition), the exception caught
RenderFragment(condition) ==
    LET Done(s) ==
            /\ refs' = s.refs
            /\ expressions' = s.expressions
            /\ outcome' = Result("fragment", [NoArgs EXCEPT !.filter = condition],
                                 s.raised, None)
    IN
    /\ steps < MaxSteps
    /\ steps' = steps + 1
    /\ Done(render_filter_expression(
                [refs |-> refs, expressions |-> expressions, raised |-> ""],
                condition))
    /\ UNCHANGED <<tracking, attrs, heap, env, calls, iter>>

\* Connectives rendered as fragments: a valid leaf with a second child that
\* is valid or has a None operand, in both orders
ConnectiveFragments ==
    UNION {{AndCondition(<<LeafAge, second>>), OrCondition(<<LeafAge, second>>),
            AndCondition(<<second, LeafAge>>)} :
              second \in {LeafName, ComparisonCondition("<", ColName, None),
                          BeginsWithCondition(ColName, None)}}

\* Leaves that hold a value in its wire form, flagged dumped, and the same
\* comparison on a nested path with a value still to be dumped
DumpedFragments ==
    {SetDumped(ComparisonCondition("==", ColAge, Wire("N", "3"))),
     SetDumped(ComparisonCondition("<", DataAB, Wire("S", "x"))),
     ComparisonCondition("<", DataAB, Lit("x")),
     SetDumped(BeginsWithCondition(ColName, Wire("S", "x"))),
     SetDumped(ContainsCondition(ColName, Wire("S", "x"))),
     SetDumped(BetweenCondition(ColAge, Wire("N", "1"), Wire("N", "5"))),
     SetDumped(InCondition(ColAge, <<Wire("N", "1"), Wire("N", "5")>>))}

\* renderer.render_projection_expression(columns)
RenderProjection(columns) ==
    LET Done(s) ==
            /\ refs' = s.refs
            /\ expressions' = s.expressions
            /\ outcome' = Result("projection", [NoArgs EXCEPT !.projection = columns],
                                 s.raised, None)
    IN
    /\ steps < MaxSteps
    /\ steps' = steps + 1
    /\ Done(render_projection_expression(
                [refs |-> refs, expressions |-> expressions, raised |-> ""],
                columns))
    /\ UNCHANGED <<tracking, attrs, heap, env, calls, iter>>

\* The column lists projected: every list of one to three columns out of two
Projections ==
    UNION {[1..n -> {ColAge, ColName}] : n \in 1..3}
    \cup {<<DataA0>>, <<ColAge, DataAB>>}

\* column.between(1, 5) on the columns without a path
BetweenFragments ==
    {BetweenCondition(column, Lit("1"), Lit("5")) : column \in {ColAge, ColName}}

\* renderer.render_update_expression(obj), for an object in the state st
RenderUpdate(st) ==
    LET Done(s) ==
            /\ refs' = s.refs
            /\ expressions' = s.expressions
            /\ outcome' = Result("update", [NoArgs EXCEPT !.obj = "X", !.update = TRUE],
                                 s.raised, None)
    IN
    /\ steps < MaxSteps
    /\ steps' = steps + 1
    /\ Done(render_update_expression(
                [refs |-> refs, expressions |-> expressions, raised |-> ""],
                st.tracking, st.attrs, "X"))
    /\ UNCHANGED <<tracking, attrs, heap, env, calls, iter>>

SessionNext ==
    \/ \E c \in Leaves \cup ConnectiveFragments \cup BetweenFragments
                  \cup DumpedFragments : RenderFragment(c)
    \/ \E columns \in Projections : RenderProjection(columns)
    \/ \E st \in TrackedStates : RenderUpdate(st)

SessionSpec == Init /\ [][SessionNext]_vars

-----------------------------------------------------------------------------
(* The condition algebra: the caller holds conditions under its names and  *)
(* combines them with &, |, ~, &= and |=.                                  *)

\* Negations built with NotCondition(...) directly: of a leaf, of that
\* negation, and of the empty condition; the names of a session that starts
\* from them are bound to the three negations
DirectNots ==
    <<Condition, LeafAge, NotCondition(Ref(2)), NotCondition(Ref(3)),
      NotCondition(Ref(1))>>

AlgebraInit ==
    /\ tracking = [o \in Objects |-> NewEntry]
    /\ attrs = [o \in Objects |-> << >>]
    /\ refs = NewTracker
    /\ expressions = << >>
    /\ outcome = Idle
    /\ steps = 0
    /\ \/ heap = BaseHeap /\ env \in [Names -> DOMAIN BaseHeap]
       \/ heap = DirectNots /\ env \in [Names -> {3, 4, 5}]
    /\ calls = NoCalls
    /\ iter = NoIter

\* target = left & right, target = left | right
Binary(operation, target, left, right) ==
    LET Done(r) ==
            /\ heap' = r.heap
            /\ env' = [env EXCEPT ![target] = r.id]
            /\ outcome' = Result(operation,
                            [left |-> env[left], right |-> env[right]], "", Ref(r.id))
    IN
    /\ steps < MaxOps
    /\ steps' = steps + 1
    /\ Done(Combine(heap, env[left], env[right], operation))
    /\ UNCHANGED <<tracking, attrs, refs, expressions, calls, iter>>

\* target &= right, target |= right
InPlace(operation, target, right) ==
    LET Done(r) ==
            /\ heap' = r.heap
            /\ env' = [env EXCEPT ![target] = r.id]
            /\ outcome' = Result("i" \o operation,
                            [left |-> env[target], right |-> env[right]], "", Ref(r.id))
    IN
    /\ steps < MaxOps
    /\ steps' = steps + 1
    /\ Done(CombineInPlace(heap, env[target], env[right], operation))
    /\ UNCHANGED <<tracking, attrs, refs, expressions, calls, iter>>

\* target = ~operand
Invert(target, operand) ==
    LET Done(r) ==
            /\ heap' = r.heap
            /\ env' = [env EXCEPT ![target] = r.id]
            /\ outcome' = Result("invert", [left |-> env[operand], right |-> env[operand]],
                                 "", Ref(r.id))
    IN
    /\ steps < MaxOps
    /\ steps' = steps + 1
    /\ Done(invert(heap, env[operand]))
    /\ UNCHANGED <<tracking, attrs, refs, expressions, calls, iter>>

\* len(operand)
LenOf(operand) ==
    /\ outcome' = Result("len", [left |-> env[operand], right |-> env[operand]], "",
                         Lit(ToString(len(heap, env[operand]))))
    /\ UNCHANGED <<tracking, attrs, refs, expressions, steps, heap, env, calls, iter>>

AlgebraNext ==
    \/ \E operation \in {"and", "or"}, target \in Names, left \in Names, right \in Names :
          Binary(operation, target, left, right)
    \/ \E operation \in {"and", "or"}, target \in Names, right \in Names :
          InPlace(operation, target, right)
    \/ \E target \in Names, operand \in Names : Invert(target, operand)
    \/ \E operand \in Names : LenOf(operand)

AlgebraSpec == AlgebraInit /\ [][AlgebraNext]_vars

-----------------------------------------------------------------------------
(* The generator iter_conditions, run one pass of its loop at a time on    *)
(* condition graphs with and without cycles.                               *)

\* a & b with itself in its values: x = a & b; y = x | a; x &= y
IndirectCycle ==
    CombineInPlace(Combine(BaseHeap, 4, 2, "or").heap, 4, Len(BaseHeap) + 1, "and").heap

\* The same through a negation: x = a & b; y = ~x; x &= y
CycleThroughNot ==
    CombineInPlace(invert(BaseHeap, 4).heap, 4, Len(BaseHeap) + 1, "and").heap

\* x = a & b; x.values.append(x)
DirectCycle == [BaseHeap EXCEPT ![4].values = Append(@, Ref(4))]

\* No cycle, but one node reached twice: y = x | x, then z = y & a
SharedNode ==
    Combine(Combine(BaseHeap, 4, 4, "or").heap, Len(BaseHeap) + 1, 2, "and").heap

IterHeaps == {BaseHeap, IndirectCycle, CycleThroughNot, DirectCycle, SharedNode}

IterInit ==
    /\ tracking = [o \in Objects |-> NewEntry]
    /\ attrs = [o \in Objects |-> << >>]
    /\ refs = NewTracker
    /\ expressions = << >>
    /\ outcome = Idle
    /\ steps = 0
    /\ heap \in IterHeaps
    /\ env = [n \in Names |-> 1]
    /\ calls = NoCalls
    /\ iter = NoIter

\* The consumer changes the graph at most MaxAppends times while a
\* generator is alive
MaxAppends == 1

\* g = iter_conditions(condition)
StartIter(id) ==
    /\ iter.pc \in {"idle", "done"}
    /\ iter' = NewIter(id)
    /\ UNCHANGED <<tracking, attrs, refs, expressions, outcome, steps, heap, env, calls>>

\* next(g): up to the next yield, or to the return with an empty stack
IterStep ==
    /\ iter.pc \in {"created", "suspended"}
    /\ iter' = iter_conditions_next(heap, iter)
    /\ UNCHANGED <<tracking, attrs, refs, expressions, outcome, steps, heap, env, calls>>

\* Between two next(g) the consumer extends in place the and/or it holds,
\* the root before the first next and then the condition it was handed:
\* target &= other, target |= other
IterAppend(target, other) ==
    /\ iter.pc \in {"created", "suspended"}
    /\ steps < MaxAppends
    /\ target = IF iter.pc = "created" THEN iter.root ELSE iter.yielded[Len(iter.yielded)]
    /\ heap[target].operation \in {"and", "or"}
    /\ steps' = steps + 1
    /\ heap' = CombineInPlace(heap, target, other, heap[target].operation).heap
    /\ UNCHANGED <<tracking, attrs, refs, expressions, outcome, env, calls, iter>>

IterNext ==
    \/ \E id \in DOMAIN heap : StartIter(id)
    \/ IterStep
    \/ \E target \in DOMAIN heap, other \in DOMAIN heap : IterAppend(target, other)

IterSpec == IterInit /\ [][IterNext]_vars

\* A generator that is being consumed is resumed
IterFairSpec == IterSpec /\ WF_vars(IterStep)

-----------------------------------------------------------------------------
(* iter_columns on conditions whose leaves compare columns with values and *)
(* with other columns.                                                     *)

\* The leaves: age or name on the left, a value or a column on the right,
\* and a between with two columns
ColumnLeaves ==
    {ComparisonCondition("<", left, right) :
        left \in {ColAge, ColName},
        right \in {Lit("3"), ColValue(ColAge), ColValue(ColId)}}
    \cup {BetweenCondition(ColAge, ColValue(ColName), ColValue(ColId)),
          ComparisonCondition("==", DataA0, Lit("3")),
          ComparisonCondition("==", ColAge, ColObject(DataA0, 1))}

\* Three leaves l1, l2, l3 and l1 & l2, (l1 & l2) | l3, ~((l1 & l2) | l3)
ColumnHeap(l1, l2, l3) ==
    <<l1, l2, l3, AndCondition(<<Ref(1), Ref(2)>>), OrCondition(<<Ref(4), Ref(3)>>),
      NotCondition(Ref(5))>>

ColumnsInit ==
    /\ tracking = [o \in Objects |-> NewEntry]
    /\ attrs = [o \in Objects |-> << >>]
    /\ refs = NewTracker
    /\ expressions = << >>
    /\ outcome = Idle
    /\ steps = 0
    /\ \E l1 \in ColumnLeaves, l2 \in ColumnLeaves, l3 \in ColumnLeaves :
          heap = ColumnHeap(l1, l2, l3)
    /\ env = [n \in Names |-> 1]
    /\ calls = NoCalls
    /\ iter = NoIter

\* g = iter_columns(condition)
StartColumns(id) ==
    /\ iter.pc \in {"idle", "done"}
    /\ iter' = NewColumnsIter(id)
    /\ UNCHANGED <<tracking, attrs, refs, expressions, outcome, steps, heap, env, calls>>

\* next(g): up to the next yield, to the return, or to the TypeError of an
\* unhashable column
IterColumns ==
    /\ iter.pc \in {"created", "suspended"}
    /\ iter' = iter_columns_next(heap, iter)
    /\ UNCHANGED <<tracking, attrs, refs, expressions, outcome, steps, heap, env, calls>>

ColumnsNext ==
    \/ \E id \in DOMAIN heap : StartColumns(id)
    \/ IterColumns

ColumnsSpec == ColumnsInit /\ [][ColumnsNext]_vars

-----------------------------------------------------------------------------
(* One tracker, used through any_ref, pop_refs and next_index directly.    *)

MaxIndex == 2
MaxCount == 2

\* data["age"]: a path whose second segment is the name of the column age
DataAge == GetItem(ColData, KeySeg("age"))
TrackedColumns == {ColAge, ColName, DataAge, DataA0}
TrackedValues == {missing, Lit("3"), ColValue(ColAge)}

\* A reference is a name ref or a value ref by the placeholder's first character
RefTypeOf(name) == IF SubSeq(name, 1, 1) = "#" THEN "name" ELSE "value"

\* References of another tracker, never allocated by this one
ForeignRefs == {Reference("#n9", "name", None), Reference(":v9", "value", None)}

\* The references a caller can pass to pop_refs: the one any_ref returned
\* last, those of the placeholders the tracker has counted so far (live or
\* released), and references this tracker never allocated
Releasable(tr, last) ==
    {Reference(k, RefTypeOf(k), None) : k \in DOMAIN tr.counts}
        \cup (IF last.op = "any_ref"
              THEN {Reference(last.result.name, last.result.type, None)} ELSE {})
        \cup ForeignRefs

TrackerInit ==
    /\ tracking = [o \in Objects |-> NewEntry]
    /\ attrs = [o \in Objects |-> << >>]
    /\ refs = NewTracker
    /\ expressions = << >>
    /\ outcome = Idle
    /\ steps = 0
    /\ heap = BaseHeap
    /\ env = [n \in Names |-> 1]
    /\ calls = NoCalls
    /\ iter = NoIter

\* tracker.any_ref(column=column, value=value)
AnyRef(column, value) ==
    LET Got(r) ==
            /\ r.refs.next_index <= MaxIndex
            /\ \A k \in DOMAIN r.refs.counts : r.refs.counts[k] <= MaxCount
            /\ refs' = r.refs
            /\ outcome' = Result("any_ref", [column |-> column, value |-> value],
                                 "", r.ref)
    IN
    /\ Got(any_ref(refs, column, value, FALSE, FALSE))
    /\ UNCHANGED <<tracking, attrs, expressions, steps, heap, env, calls, iter>>

\* ReferenceTracker.next_index: the property hands out the current index
\* and advances the counter at every read
next_index_read(tr) ==
    [refs |-> [tr EXCEPT !.next_index = @ + 1], index |-> tr.next_index]

\* tracker.next_index, read by a caller: the index is used up
NextIndex ==
    LET Got(r) ==
            /\ r.refs.next_index <= MaxIndex
            /\ refs' = r.refs
            /\ outcome' = Result("next_index", << >>, "", Lit(ToString(r.index)))
    IN
    /\ Got(next_index_read(refs))
    /\ UNCHANGED <<tracking, attrs, expressions, steps, heap, env, calls, iter>>

\* tracker.pop_refs(ref)
PopRefs(ref) ==
    /\ refs' = pop_refs(refs, <<ref>>)
    /\ outcome' = Result("pop_refs", [ref |-> ref], "", None)
    /\ UNCHANGED <<tracking, attrs, expressions, steps, heap, env, calls, iter>>

TrackerNext ==
    \/ \E column \in TrackedColumns, value \in TrackedValues : AnyRef(column, value)
    \/ \E ref \in Releasable(refs, outcome) : PopRefs(ref)
    \/ NextIndex

TrackerSpec == TrackerInit /\ [][TrackerNext]_vars

-----------------------------------------------------------------------------
(* Two objects share the tracking cache; the operations on them are taken  *)
(* in any order.                                                           *)

CacheObjects == {"X", "Y"}
CacheColumns == {ColAge, ColName}

CacheInit ==
    /\ tracking = [o \in CacheObjects |-> NewEntry]
    /\ attrs = [o \in CacheObjects |-> << >>]
    /\ refs = NewTracker
    /\ expressions = << >>
    /\ outcome = Idle
    /\ steps = 0
    /\ heap = BaseHeap
    /\ env = [n \in Names |-> 1]
    /\ calls = NoCalls
    /\ iter = NoIter

CacheNext ==
    \/ \E obj \in CacheObjects, column \in CacheColumns :
          \E value \in SetValues(column) : SetAttr(obj, column, value)
    \/ \E obj \in CacheObjects, column \in CacheColumns : DelAttr(obj, column)
    \/ \E obj \in CacheObjects : Sync(obj)
    \/ \E obj \in CacheObjects : GetSnapshot(obj)
    \/ \E obj \in CacheObjects : GetMarked(obj)
    \/ \E obj \in CacheObjects : OnObjectDeleted(obj)
    \/ Return

CacheSpec == CacheInit /\ [][CacheNext]_vars

-----------------------------------------------------------------------------
(* Two threads call render on the same object, each once; the steps of the *)
(* two calls are taken in any order.                                       *)

\* The argument lists of the calls made by the threads
ConcurrentCalls ==
    {[obj |-> "X", filter |-> LeafAge, projection |-> <<ColAge, ColName>>,
      key |-> ComparisonCondition("==", ColId, Lit("k")),
      atomic |-> TRUE, condition |-> LeafName, update |-> TRUE],
     [NoArgs EXCEPT !.obj = "X", !.filter = AndCondition(<<LeafName, LeafAge>>)],
     [NoArgs EXCEPT !.obj = "X", !.filter = LeafAge,
                    !.condition = ComparisonCondition("<", ColAge, None)],
     [NoArgs EXCEPT !.obj = "X", !.update = TRUE],
     [NoArgs EXCEPT !.atomic = TRUE],
     [NoArgs EXCEPT !.update = TRUE, !.filter = LeafAge, !.projection = <<ColName>>,
                    !.key = ComparisonCondition("==", ColId, Lit("k"))]}

ConcurrentInit ==
    /\ \E st \in TrackedStates : tracking = st.tracking /\ attrs = st.attrs
    /\ refs = NewTracker
    /\ expressions = << >>
    /\ outcome = Idle
    /\ steps = 0
    /\ heap = BaseHeap
    /\ env = [n \in Names |-> 1]
    /\ calls = NoCalls
    /\ iter = NoIter

\* render(engine, ...): renderer = ConditionRenderer(engine)
CallRender(t, args) ==
    LET Built(r) ==
            calls' = [trackers |-> r.trackers,
                      threads |-> [calls.threads EXCEPT ![t] =
                          [IdleThread EXCEPT !.pc = "check", !.args = args,
                                             !.refs = r.refs]]]
    IN
    /\ calls.threads[t].pc = "idle"
    /\ Built(NewRenderer(calls.trackers))
    /\ UNCHANGED <<tracking, attrs, refs, expressions, outcome, steps, heap, env, iter>>

\* The next step of renderer.render in thread t; an exception ends the call
StepRender(t) ==
    LET th == calls.threads[t]
        Done(r) ==
            /\ tracking' = r.tracking
            /\ calls' = [trackers |-> [calls.trackers EXCEPT ![th.refs] = r.session.refs],
                         threads |-> [calls.threads EXCEPT ![t] =
                            [th EXCEPT !.expressions = r.session.expressions,
                                       !.raised = r.session.raised,
                                       !.pc = IF r.session.raised # "" THEN "done"
                                              ELSE NextPc(th.pc)]]]
    IN
    /\ th.pc \in {"check", "filter", "projection", "key", "condition", "update"}
    /\ Done(RenderStep([refs |-> calls.trackers[th.refs],
                        expressions |-> th.expressions, raised |-> ""],
                       tracking, attrs, th.args, th.pc))
    /\ UNCHANGED <<attrs, refs, expressions, outcome, steps, heap, env, iter>>

\* return renderer.rendered
ReturnRendered(t) ==
    LET th == calls.threads[t] IN
    /\ th.pc = "rendered"
    /\ calls' = [calls EXCEPT !.threads[t] =
                    [th EXCEPT !.pc = "done",
                               !.result = rendered(th.expressions,
                                                   calls.trackers[th.refs])]]
    /\ UNCHANGED <<tracking, attrs, refs, expressions, outcome, steps, heap, env, iter>>

ConcurrentNext ==
    \/ \E t \in Threads, args \in ConcurrentCalls : CallRender(t, args)
    \/ \E t \in Threads : StepRender(t)
    \/ \E t \in Threads : ReturnRendered(t)

ConcurrentSpec == ConcurrentInit /\ [][ConcurrentNext]_vars

-----------------------------------------------------------------------------
(* Comparisons are constructed on columns. *)

\* column <operation> value, or column.<operation>(value, upper)
Compare(column, operation, value, upper) ==
    LET Done(r) ==
            outcome' = Result("compare",
                              [column |-> column, operation |-> operation,
                               value |-> value, upper |-> upper],
                              r.raised, r.condition)
    IN
    /\ Done(compare(column, operation, value, upper))
    /\ UNCHANGED <<tracking, attrs, refs, expressions, steps, heap, env, calls, iter>>

\* Leaves on age whose values are literals, a declared column, and
\* proxies of one path that are two objects
EqualLeaves ==
    {ComparisonCondition("<", ColAge, value) :
        value \in {Lit("3"), ColValue(ColName), ColObject(DataA0, 1), ColObject(DataA0, 2)}}
    \cup {BetweenCondition(ColAge, ColObject(DataAB, oid), Lit("5")) : oid \in {1, 2}}

\* left == right for two condition objects
Equal(left, right) ==
    /\ outcome' = Result("eq", [left |-> left, right |-> right], "",
                         IF BaseCondition_eq(<<left, right>>, 1, 2)
                         THEN Lit("True") ELSE Lit("False"))
    /\ UNCHANGED <<tracking, attrs, refs, expressions, steps, heap, env, calls, iter>>

CompareNext ==
    \/ \E column \in ComparedColumns, operation \in ComparisonMethods,
          value \in ComparedValues, upper \in ComparedValues :
           Compare(column, operation, value, upper)
    \/ \E left \in EqualLeaves, right \in EqualLeaves : Equal(left, right)

CompareSpec == Init /\ [][CompareNext]_vars

-----------------------------------------------------------------------------
(* Properties of one render session *)

\* The operand v of the leaf c reaches the expression as None: a value the
\* leaf flags as dumped is stored as it is, any other goes through the dump
DumpsNone(c, v) ==
    /\ ~IsColumn(v)
    /\ IF c.dumped THEN v.kind = "None"
       ELSE Dump(TypedefAt(c.column.typedef, c.column.path), v).kind = "None"

\* A leaf of a kind for which a None operand is invalid, with such an operand
HasNoneOperand(c) ==
    /\ c.operation \in OrderingOps \cup {"begins_with", "between", "contains", "in"}
    /\ \E k \in 1..Len(c.values) : DumpsNone(c, c.values[k])

\* The string pieces of a column's path: its wire name and its string segments
NamePieces(column) ==
    {column.dynamo_name}
    \cup {column.path[k].key : k \in {j \in 1..Len(column.path) : ~column.path[j].isint}}

\* The path of a column as the names table tr spells it
RECURSIVE SegmentsText(_, _, _)
SegmentsText(tr, path, k) ==
    IF k > Len(path) THEN ""
    ELSE (IF path[k].isint THEN "[" \o ToString(path[k].idx) \o "]"
          ELSE "." \o tr.name_attr_index[path[k].key])
         \o SegmentsText(tr, path, k + 1)

PathText(tr, column) ==
    tr.name_attr_index[column.dynamo_name] \o SegmentsText(tr, column.path, 1)

\* C1: for every leaf kind (<, >, <=, >=, begins_with, between, contains, in)
\* and every column path, nested ones included, rendering the leaf with an
\* operand that dumps to None raises InvalidCondition and leaves
\* ExpressionAttributeNames and ExpressionAttributeValues exactly as they
\* were before the leaf was rendered.
C1_FailedLeafRestoresTables ==
    [][(outcome'.op = "fragment" /\ HasNoneOperand(outcome'.args.filter))
        => /\ outcome'.raised = "InvalidCondition"
           /\ refs'.attr_names = refs.attr_names
           /\ refs'.attr_values = refs.attr_values]_vars

\* C2: rendering column == v (column != v) where v dumps to None succeeds,
\* yields (attribute_not_exists(<path>)) ((attribute_exists(<path>))), keeps
\* every name placeholder of the column's path in ExpressionAttributeNames
\* and leaves no entry for the comparison in ExpressionAttributeValues.
C2_EqualsNoneIsAttributeNotExists ==
    [][LET c == outcome'.args.filter
           fn == IF c.operation = "==" THEN "attribute_not_exists"
                 ELSE "attribute_exists"
       IN (/\ outcome'.op = "fragment"
           /\ c.operation \in {"==", "!="}
           /\ DumpsNone(c, c.values[1]))
          => /\ outcome'.raised = ""
             /\ \A piece \in NamePieces(c.column) :
                   /\ piece \in DOMAIN refs'.name_attr_index
                   /\ refs'.name_attr_index[piece] \in DOMAIN refs'.attr_names
                   /\ refs'.attr_names[refs'.name_attr_index[piece]] = piece
             /\ expressions'["FilterExpression"].text
                   = "(" \o fn \o "(" \o PathText(refs', c.column) \o "))"
             /\ refs'.attr_values = refs.attr_values]_vars

\* A session whose second fragment is data.a.b != set(), rendered after a
\* fragment that left a value in ExpressionAttributeValues
C2_Witness ==
    /\ steps = 2
    /\ outcome.op = "fragment"
    /\ outcome.args.filter = ComparisonCondition("!=", DataAB, Lit("set()"))
    /\ outcome.raised = ""
    /\ expressions["FilterExpression"].text = "(attribute_exists(#n2.#n3.#n4))"
    /\ DOMAIN refs.attr_values = {":v1"}

-----------------------------------------------------------------------------
(* Properties of the system *)

\* The connectives of a condition tree, the root included, that have no child
EmptyConnectiveIn(c) ==
    /\ ~IsNone(c)
    /\ \E n \in {c} \cup {PreOrder(c)[k] : k \in 1..Len(PreOrder(c))} :
          n.operation \in {"and", "or"} /\ Len(n.values) = 0

\* C3: rendering an And/Or connective with zero children raises
\* InvalidCondition in every position: passed directly as the condition, the
\* filter or the key of a render call, and nested inside another connective.
C3_EmptyConnectiveRaises ==
    (/\ outcome.op = "render"
     /\ \/ EmptyConnectiveIn(outcome.args.filter)
        \/ EmptyConnectiveIn(outcome.args.key)
        \/ EmptyConnectiveIn(outcome.args.condition))
    => outcome.raised = "InvalidCondition"
\* The columns of a set in wire-name order: the one sequence over all of
\* them along which the wire names strictly increase
InWireOrder(cols) ==
    CHOOSE seq \in [1..Cardinality(cols) -> cols] :
        \A i, j \in 1..Cardinality(cols) :
            i < j => StrRank(seq[i].dynamo_name) < StrRank(seq[j].dynamo_name)

\* A render call that asks for an update and for nothing else
UpdateOnly(args) ==
    /\ args.obj \in Objects
    /\ args.update
    /\ ~args.atomic
    /\ args.condition \in {None, Condition}
    /\ args.filter = None
    /\ args.key = None
    /\ args.projection = << >>

\* The update of a fresh session for the cache and the attributes as they
\* are: the i-th column in wire-name order takes the placeholders #n(2i-2)
\* and :v(2i-1); it is SET when its value dumps to something, else REMOVEd
ExpectedUpdate(obj) ==
    LET cols == InWireOrder(tracking[obj].marked \ MetaKeys)
        value(i) == Dump(cols[i].typedef, GetAttr(attrs, obj, cols[i]))
        nameRef(i) == "#n" \o ToString(2 * i - 2)
        valueRef(i) == ":v" \o ToString(2 * i - 1)
        IsSet(i) == value(i) # None
        IsRemove(i) == value(i) = None
        all == [i \in 1..Len(cols) |-> i]
        sets == SelectSeq(all, IsSet)
        removes == SelectSeq(all, IsRemove)
        setText == JoinWith(", ", [k \in 1..Len(sets) |->
                        nameRef(sets[k]) \o "=" \o valueRef(sets[k])])
        removeText == JoinWith(", ", [k \in 1..Len(removes) |-> nameRef(removes[k])])
    IN [columns |-> Len(cols),
        text |-> IF Len(sets) > 0 /\ Len(removes) > 0
                 THEN "SET " \o setText \o " REMOVE " \o removeText
                 ELSE IF Len(sets) > 0 THEN "SET " \o setText
                 ELSE "REMOVE " \o removeText,
        names |-> [r \in {nameRef(i) : i \in 1..Len(cols)} |->
                     (CHOOSE i \in 1..Len(cols) : nameRef(i) = r) ] ,
        wire |-> [i \in 1..Len(cols) |-> cols[i].dynamo_name],
        values |-> [r \in {valueRef(sets[k]) : k \in 1..Len(sets)} |->
                     value(CHOOSE i \in 1..Len(cols) : valueRef(i) = r)]]

\* An update-only render call on an object whose marked non-key columns are
\* name, with the value "x", and age, with no value
NameSetAgeCleared ==
    /\ outcome.op = "render"
    /\ UpdateOnly(outcome.args)
    /\ tracking[outcome.args.obj].marked \ MetaKeys = {ColName, ColAge}
    /\ GetAttr(attrs, outcome.args.obj, ColName) = Lit("x")
    /\ GetAttr(attrs, outcome.args.obj, ColAge) = None

\* C4 (as stated): in a fresh render session, an update for an object whose
\* marked non-key columns are name (value "x") and age (value None) renders
\* exactly UpdateExpression = "SET #n0=:v1 REMOVE #n2", with one entry in
\* ExpressionAttributeValues.
C4_Original ==
    NameSetAgeCleared
    => /\ outcome.raised = ""
       /\ outcome.result["UpdateExpression"] = "SET #n0=:v1 REMOVE #n2"
       /\ Cardinality(DOMAIN outcome.result["ExpressionAttributeValues"]) = 1

\* C4 (amended): in a fresh render session, an update for an object whose
\* marked non-key columns are name (value "x") and age (value None) renders
\* exactly UpdateExpression = "SET #n2=:v3 REMOVE #n0": age comes first in
\* wire-name order and takes #n0 and the released :v1, name takes #n2 and
\* :v3.  ExpressionAttributeValues holds the one entry :v3 for name and none
\* for age.
C4_UpdateNameSetAgeRemoved ==
    NameSetAgeCleared
    => /\ outcome.raised = ""
       /\ outcome.result["UpdateExpression"] = "SET #n2=:v3 REMOVE #n0"
       /\ outcome.result["ExpressionAttributeNames"]
             = [r \in {"#n0", "#n2"} |-> IF r = "#n0" THEN "age" ELSE "name"]
       /\ outcome.result["ExpressionAttributeValues"]
             = [r \in {":v3"} |-> Wire("S", "x")]

\* The update is rendered while the key column is marked too
C4_Witness ==
    /\ NameSetAgeCleared
    /\ ColId \in tracking[outcome.args.obj].marked
    /\ "UpdateExpression" \in DOMAIN outcome.result

\* C5: in an update render every marked non-key column appears exactly once
\* in UpdateExpression, in wire-name order: under SET as name=value iff its
\* current value dumps to a non-None value, otherwise under REMOVE with its
\* value placeholder gone from ExpressionAttributeValues; SET precedes
\* REMOVE, and there is no UpdateExpression when there is no such column.
C5_UpdateExpressionShape ==
    /\ (outcome.op = "render" /\ outcome.args.update /\ outcome.raised = "")
       => ("UpdateExpression" \in DOMAIN outcome.result
            <=> tracking[outcome.args.obj].marked \ MetaKeys # {})
    /\ (outcome.op = "render" /\ UpdateOnly(outcome.args))
       => LET e == ExpectedUpdate(outcome.args.obj)
           result == outcome.result
       IN /\ outcome.raised = ""
          /\ "UpdateExpression" \in DOMAIN result <=> e.columns > 0
          /\ e.columns > 0 =>
                /\ result["UpdateExpression"] = e.text
                /\ result["ExpressionAttributeNames"]
                      = [r \in DOMAIN e.names |-> e.wire[e.names[r]]]
          /\ "ExpressionAttributeValues" \in DOMAIN result <=> DOMAIN e.values # {}
          /\ DOMAIN e.values # {} => result["ExpressionAttributeValues"] = e.values

\* An update that sets one column and removes another
C5_Witness ==
    /\ outcome.op = "render"
    /\ UpdateOnly(outcome.args)
    /\ tracking[outcome.args.obj].marked = {ColAge, ColName}
    /\ GetAttr(attrs, outcome.args.obj, ColAge) = Lit("3")
    /\ GetAttr(attrs, outcome.args.obj, ColName) = Lit("")
    /\ outcome.result["UpdateExpression"] = "SET #n0=:v1 REMOVE #n2"

\* The wire names of the key columns
KeyNames == {c.dynamo_name : c \in MetaKeys}

\* C6: whatever columns are marked, key columns included, the
\* UpdateExpression of an update render references no key column: a render
\* that asks for the update alone holds one name placeholder per marked
\* non-key column, none of them for a key column, and one value placeholder
\* per marked non-key column whose value dumps to something.
C6_NoKeyColumnInUpdate ==
    (outcome.op = "render" /\ UpdateOnly(outcome.args))
    => LET result == outcome.result
           obj == outcome.args.obj
           nonkey == tracking[obj].marked \ MetaKeys
           names == IF "ExpressionAttributeNames" \in DOMAIN result
                    THEN result["ExpressionAttributeNames"] ELSE << >>
           values == IF "ExpressionAttributeValues" \in DOMAIN result
                     THEN result["ExpressionAttributeValues"] ELSE << >>
       IN /\ outcome.raised = ""
          /\ {names[r] : r \in DOMAIN names} = {c.dynamo_name : c \in nonkey}
          /\ {names[r] : r \in DOMAIN names} \cap KeyNames = {}
          /\ Cardinality(DOMAIN names) = Cardinality(nonkey)
          /\ Cardinality(DOMAIN values)
                = Cardinality({c \in nonkey :
                      Dump(c.typedef, GetAttr(attrs, obj, c)) # None})
          /\ nonkey = {} => "UpdateExpression" \notin DOMAIN result

\* An update rendered while the key column is marked and holds a value, next
\* to a marked column that is not a key
C6_Witness ==
    /\ outcome.op = "render"
    /\ UpdateOnly(outcome.args)
    /\ tracking[outcome.args.obj].marked = {ColId, ColName}
    /\ GetAttr(attrs, outcome.args.obj, ColId) = Lit("k")
    /\ "UpdateExpression" \in DOMAIN outcome.result
\* The leaves of a condition, from left to right
IsLeaf(c) == c.operation \notin {"and", "or", "not", "None"}
LeafSeq(c) == SelectSeq(PreOrder(c), IsLeaf)
NonEmpty(c) == Len(LeafSeq(c)) > 0

\* The operands of the AND a condition stands for
Conjuncts(c) == IF c.operation = "and" THEN c.values ELSE <<c>>

\* explicit & snapshot: the one that is not empty when the other is, else
\* one AND of the conjuncts of both, the explicit condition's first
Merged(explicit, snapshot) ==
    IF NonEmpty(explicit) /\ NonEmpty(snapshot)
    THEN AndCondition(Conjuncts(explicit) \o Conjuncts(snapshot))
    ELSE IF NonEmpty(explicit) THEN explicit
    ELSE snapshot

\* A render call on an object that returns and renders no filter, key or
\* projection before its condition
ConditionCall ==
    /\ outcome.op = "render"
    /\ outcome.raised = ""
    /\ outcome.args.obj \in Objects
    /\ outcome.args.filter = None
    /\ outcome.args.key = None
    /\ outcome.args.projection = << >>

\* C7: the condition rendered as ConditionExpression is explicit &
\* snapshot(obj) when atomic is requested and the explicit condition alone
\* otherwise, a missing explicit condition counting as the empty one;
\* ConditionExpression is emitted iff that condition is not empty, and when
\* both parts are non-empty the explicit condition's leaves precede the
\* snapshot's in one flattened AND.
C7_EffectiveCondition ==
    ConditionCall
    => LET args == outcome.args
           explicit == IF args.condition = None THEN Condition ELSE args.condition
           snapshot == IF args.atomic THEN tracking[args.obj].snapshot
                       ELSE Condition
           effective == Merged(explicit, snapshot)
       IN /\ "ConditionExpression" \in DOMAIN outcome.result <=> NonEmpty(effective)
          /\ NonEmpty(effective) =>
                outcome.result["ConditionExpression"]
                    = render(effective, NewTracker).text
          /\ (NonEmpty(explicit) /\ NonEmpty(snapshot)) =>
                /\ effective.operation = "and"
                /\ \A k \in 1..Len(effective.values) :
                      effective.values[k].operation # "and"
                /\ LeafSeq(effective) = LeafSeq(explicit) \o LeafSeq(snapshot)

\* An atomic render whose explicit condition is an AND of two leaves, on an
\* object synced with two marked columns: one AND of four comparisons
C7_Witness ==
    /\ ConditionCall
    /\ outcome.args.atomic
    /\ outcome.args.condition = AndCondition(<<LeafAge, LeafName>>)
    /\ tracking[outcome.args.obj].snapshot.operation = "and"
    /\ Len(tracking[outcome.args.obj].snapshot.values) = 2
    /\ outcome.result["ConditionExpression"]
          = "((#n0 < :v1) AND (#n2 = :v3) AND (#n0 = :v4) AND (#n2 = :v5))"

\* The equality sync stores for a column and its dumped value
SyncedLeaf(column, value) == SetDumped(ComparisonCondition("==", column, value))

\* The snapshot of an object over its marked columns and its attributes as
\* they are: one equality per marked column, in wire-name order
ExpectedSnapshot(trk, at, obj) ==
    LET cols == InWireOrder(trk[obj].marked)
        leaves == [i \in 1..Len(cols) |->
                     SyncedLeaf(cols[i], Dump(cols[i].typedef, GetAttr(at, obj, cols[i])))]
    IN IF Len(cols) = 0 THEN Condition
       ELSE IF Len(cols) = 1 THEN leaves[1]
       ELSE AndCondition(leaves)

\* The snapshot is one that sync stored for two marked columns
TwoSynced(snapshot) ==
    /\ ~IsNone(snapshot)
    /\ snapshot.operation = "and"
    /\ Len(snapshot.values) = 2
    /\ \A k \in 1..2 : snapshot.values[k].operation = "==" /\ snapshot.values[k].dumped

\* A render call that asks for the atomic condition and for nothing else
AtomicOnly(args) ==
    /\ args.obj \in Objects
    /\ args.atomic
    /\ ~args.update
    /\ args.condition \in {None, Condition}
    /\ args.filter = None
    /\ args.key = None
    /\ args.projection = << >>

\* What an atomic render of a fresh session shows of a stored snapshot of
\* two equalities: the k-th takes #n(2k-2) and :v(2k-1), and the stored
\* value goes into ExpressionAttributeValues as it is
ExpectedAtomic(snapshot) ==
    LET leaf(k) == snapshot.values[k]
        stored(k) == leaf(k).values[1]
        nameRef(k) == "#n" \o ToString(2 * k - 2)
        valueRef(k) == ":v" \o ToString(2 * k - 1)
        text(k) == IF stored(k) = None
                   THEN "(attribute_not_exists(" \o nameRef(k) \o "))"
                   ELSE "(" \o nameRef(k) \o " = " \o valueRef(k) \o ")"
        kept == {k \in 1..2 : stored(k) # None}
    IN [text |-> "(" \o text(1) \o " AND " \o text(2) \o ")",
        names |-> [r \in {nameRef(1), nameRef(2)} |->
                     IF r = nameRef(1) THEN leaf(1).column.dynamo_name
                     ELSE leaf(2).column.dynamo_name],
        values |-> [r \in {valueRef(k) : k \in kept} |->
                     IF r = valueRef(1) THEN stored(1) ELSE stored(2)]]

\* C8: after sync(obj) with two marked columns an atomic render with no
\* explicit condition yields the AND, in wire-name order, of one equality per
\* marked column against the value dumped at that sync; setting or deleting
\* attributes of obj afterwards, which marks further columns, does not change
\* the stored snapshot, and the render shows the stored values as they are,
\* not dumped a second time.
C8_AtomicRenderOfSyncedSnapshot ==
    [][/\ (outcome'.op = "sync" /\ Cardinality(tracking[outcome'.args.obj].marked) = 2)
          => /\ tracking'[outcome'.args.obj].snapshot
                   = ExpectedSnapshot(tracking, attrs, outcome'.args.obj)
             /\ TwoSynced(tracking'[outcome'.args.obj].snapshot)
       /\ (outcome'.op \in {"set", "delete_attr"}
           /\ "snapshot" \in DOMAIN tracking[outcome'.args.obj])
          => /\ "snapshot" \in DOMAIN tracking'[outcome'.args.obj]
             /\ tracking'[outcome'.args.obj].snapshot
                   = tracking[outcome'.args.obj].snapshot
       /\ (/\ outcome'.op = "render"
           /\ AtomicOnly(outcome'.args)
           /\ "snapshot" \in DOMAIN tracking[outcome'.args.obj]
           /\ TwoSynced(tracking[outcome'.args.obj].snapshot))
          => LET e == ExpectedAtomic(tracking[outcome'.args.obj].snapshot)
                 result == outcome'.result
             IN /\ outcome'.raised = ""
                /\ tracking' = tracking
                /\ result["ConditionExpression"] = e.text
                /\ result["ExpressionAttributeNames"] = e.names
                /\ "ExpressionAttributeValues" \in DOMAIN result
                      <=> DOMAIN e.values # {}
                /\ DOMAIN e.values # {} =>
                      result["ExpressionAttributeValues"] = e.values]_vars

\* An atomic render after a sync with age = 3 and name = "x" marked, after
\* which name was set to another value and the key column was marked
C8_Witness ==
    /\ outcome.op = "render"
    /\ AtomicOnly(outcome.args)
    /\ tracking[outcome.args.obj].snapshot
          = AndCondition(<<SyncedLeaf(ColAge, Wire("N", "3")),
                           SyncedLeaf(ColName, Wire("S", "x"))>>)
    /\ GetAttr(attrs, outcome.args.obj, ColName) = Lit("")
    /\ ColId \in tracking[outcome.args.obj].marked
    /\ outcome.result["ConditionExpression"] = "((#n0 = :v1) AND (#n2 = :v3))"
    /\ outcome.result["ExpressionAttributeValues"][":v3"] = Wire("S", "x")

\* C9 (as stated): an object's marked set is exactly the set of columns set
\* or deleted on it since its last sync: right after a sync no column is
\* marked.
C9_Original ==
    outcome.op = "sync" => tracking[outcome.args.obj].marked = {}

\* C9 (amended): an object's marked set is exactly the set of columns set or
\* deleted on it since it was first tracked: setting or deleting an attribute
\* adds its column, and no other operation, sync included, changes the set.
C9_MarkedOnlyGrows ==
    [][/\ outcome'.op \in {"set", "delete_attr"}
          => tracking'[outcome'.args.obj].marked
                = tracking[outcome'.args.obj].marked \cup {outcome'.args.column}
       /\ outcome'.op \notin {"set", "delete_attr"}
          => \A obj \in Objects : tracking'[obj].marked = tracking[obj].marked]_vars

\* A sync has just run and the columns marked before it are still marked
C9_Witness ==
    /\ outcome.op = "sync"
    /\ tracking[outcome.args.obj].marked = {ColAge, ColName}
    /\ tracking[outcome.args.obj].snapshot # None

\* C10: sync(obj) replaces the cached snapshot with a condition whose leaves
\* are exactly one equality per currently marked column, in wire-name order,
\* each against the column's current dumped value and flagged dumped; nothing
\* of the previous snapshot is retained.
C10_SyncBuildsSnapshot ==
    outcome.op = "sync"
    => LET obj == outcome.args.obj
           snapshot == tracking[obj].snapshot
           cols == InWireOrder(tracking[obj].marked)
           leaves == LeafSeq(snapshot)
       IN /\ snapshot = ExpectedSnapshot(tracking, attrs, obj)
          /\ Len(leaves) = Cardinality(tracking[obj].marked)
          /\ \A i \in 1..Len(leaves) :
                /\ leaves[i].operation = "=="
                /\ leaves[i].column = cols[i]
                /\ leaves[i].values
                      = <<Dump(cols[i].typedef, GetAttr(attrs, obj, cols[i]))>>
                /\ leaves[i].dumped

\* A sync with every column marked, the key column sorted last by its wire
\* name pk, and a name that dumps to None
C10_Witness ==
    /\ outcome.op = "sync"
    /\ tracking[outcome.args.obj].marked = MetaColumns
    /\ GetAttr(attrs, outcome.args.obj, ColName) = Lit("")
    /\ LeafSeq(tracking[outcome.args.obj].snapshot)
          = <<SyncedLeaf(ColAge, Wire("N", "3")), SyncedLeaf(ColName, None),
              SyncedLeaf(ColId, Wire("S", "k"))>>
\* The snapshot of an object that has none cached: every declared column of
\* the model, in wire-name order, is expected to be None
DefaultSnapshot ==
    LET cols == InWireOrder(MetaColumns)
    IN AndCondition([i \in 1..Len(cols) |-> ComparisonCondition("==", cols[i], None)])

\* The object's entry holds a snapshot
HasSnapshot(trk, obj) ==
    "snapshot" \in DOMAIN trk[obj] /\ trk[obj].snapshot # None

\* C11: get_snapshot(obj) returns the cached snapshot unchanged when one is
\* present; when none is present (never synced, or deleted since the last
\* sync) it returns the AND, over every declared column in wire-name order,
\* of column is None, and caches it, so that a second get_snapshot with no
\* sync or delete in between returns the same condition.
C11_GetSnapshot ==
    [][outcome'.op = "get_snapshot"
       => LET obj == outcome'.args.obj
          IN /\ HasSnapshot(tracking, obj)
                => /\ outcome'.result = tracking[obj].snapshot
                   /\ tracking' = tracking
             /\ ~HasSnapshot(tracking, obj)
                => /\ outcome'.result = DefaultSnapshot
                   /\ tracking'[obj].marked = tracking[obj].marked
             /\ HasSnapshot(tracking', obj)
             /\ tracking'[obj].snapshot = outcome'.result
             /\ get_snapshot(tracking', obj).snapshot = outcome'.result]_vars

\* get_snapshot has returned the default for an object with a marked column
\* and a value, and the default is now the cached snapshot
C11_Witness ==
    /\ outcome.op = "get_snapshot"
    /\ tracking[outcome.args.obj].marked = {ColAge}
    /\ GetAttr(attrs, outcome.args.obj, ColAge) = Lit("3")
    /\ outcome.result = DefaultSnapshot
    /\ tracking[outcome.args.obj].snapshot = DefaultSnapshot

\* C12: on_delete(obj) removes only the cached snapshot: the marked set is
\* the same before and after, and the next get_snapshot(obj) returns the
\* all-columns-are-None default, not the snapshot that existed before.
C12_OnDeleteDropsSnapshotOnly ==
    [][outcome'.op = "on_delete"
       => LET obj == outcome'.args.obj
          IN /\ tracking'[obj].marked = tracking[obj].marked
             /\ ~HasSnapshot(tracking', obj)
             /\ get_snapshot(tracking', obj).snapshot = DefaultSnapshot
             /\ attrs' = attrs]_vars

\* on_delete has run on an object with two marked columns
C12_Witness ==
    /\ outcome.op = "on_delete"
    /\ tracking[outcome.args.obj].marked = {ColAge, ColName}
    /\ "snapshot" \notin DOMAIN tracking[outcome.args.obj]
-----------------------------------------------------------------------------
(* Properties of the condition algebra *)

IsEmpty(h, id) == h[id].operation = "None"

\* C13: for every condition A (leaf, Not, And or Or), each of A & Empty,
\* Empty & A, A | Empty and Empty | A is structurally equal to A, and no new
\* And/Or node is made to wrap A.
C13_EmptyIsIdentity ==
    [][(outcome'.op \in {"and", "or"}
        /\ (IsEmpty(heap, outcome'.args.left) \/ IsEmpty(heap, outcome'.args.right)))
       => LET A == IF IsEmpty(heap, outcome'.args.right)
                   THEN outcome'.args.left ELSE outcome'.args.right
          IN /\ heap' = heap
             /\ BaseCondition_eq(heap', outcome'.result.id, A)]_vars

\* What an operand contributes to the children of an `operation` node: its
\* own children when it is such a node, else itself
Flat(h, id, operation) ==
    IF h[id].operation = operation THEN Children(h, id) ELSE <<id>>

\* C14: for operands A, B, C of non-zero length, (A & B) & C and A & (B & C)
\* are And nodes with the same ordered children: the children of every And
\* operand spliced in order, every other operand as one child, and no And
\* node a direct child; the same for | and Or.  A and B are the operands of
\* the combination just made, C any condition of the session.
C14_FlattenedChildren ==
    [][(/\ outcome'.op \in {"and", "or"}
        /\ truth(heap', outcome'.args.left)
        /\ truth(heap', outcome'.args.right))
       => \A C \in DOMAIN heap', operation \in {outcome'.op} :
            truth(heap', C)
            => \A AB_C \in {Combine(heap', outcome'.result.id, C, operation)},
                  BC \in {Combine(heap', outcome'.args.right, C, operation)} :
                 \A A_BC \in {Combine(BC.heap, outcome'.args.left, BC.id, operation)},
                    expected \in {Flat(heap', outcome'.args.left, operation)
                                  \o Flat(heap', outcome'.args.right, operation)
                                  \o Flat(heap', C, operation)} :
                    /\ AB_C.heap[AB_C.id].operation = operation
                    /\ A_BC.heap[A_BC.id].operation = operation
                    /\ Children(AB_C.heap, AB_C.id) = expected
                    /\ Children(A_BC.heap, A_BC.id) = expected
                    /\ \A k \in 1..Len(expected) :
                           heap'[expected[k]].operation # operation]_vars

\* An And was combined with an Or by &: the And is spliced, the Or is one
\* child
C14_Witness ==
    /\ outcome.op = "and"
    /\ heap[outcome.args.left].operation = "and"
    /\ heap[outcome.args.right].operation = "or"
    /\ Children(heap, outcome.result.id)
         = Children(heap, outcome.args.left) \o <<outcome.args.right>>
    /\ Len(Children(heap, outcome.result.id)) = 3

\* C15 as stated: for every condition A other than Empty, ~(~A) is
\* structurally equal to A, also when A is a Not; ~Empty is Empty.  A is the
\* operand of the negation just made, whose result is negated again.
C15_Original ==
    [][outcome'.op = "invert"
       => \A A \in {outcome'.args.left},
             twice \in {invert(heap', outcome'.result.id)} :
            /\ BaseCondition_eq(twice.heap, twice.id, A)
            /\ IsEmpty(heap', A)
                 => outcome'.result.id = A /\ heap' = heap]_vars

\* A Not that holds a Not or the empty condition; ~ never builds one
NotOfNotOrEmpty(h, A) ==
    /\ h[A].operation = "not"
    /\ h[h[A].values[1].id].operation \in {"not", "None"}

\* C15, amended: for every condition A other than Empty that is not a Not
\* holding a Not or Empty, ~(~A) is structurally equal to A, also when A is
\* a Not; for a Not holding a Not, ~(~A) is the child of that inner Not, and
\* for a Not holding Empty it is Empty; ~Empty is Empty.
C15_DoubleNegation ==
    [][outcome'.op = "invert"
       => \A A \in {outcome'.args.left},
             twice \in {invert(heap', outcome'.result.id)} :
            /\ (~IsEmpty(heap', A) /\ ~NotOfNotOrEmpty(heap, A))
                 => BaseCondition_eq(twice.heap, twice.id, A)
            /\ NotOfNotOrEmpty(heap, A)
                 => /\ twice.heap = heap
                    /\ twice.id = IF heap[heap[A].values[1].id].operation = "not"
                                  THEN heap[heap[A].values[1].id].values[1].id
                                  ELSE heap[A].values[1].id
            /\ IsEmpty(heap', A)
                 => outcome'.result.id = A /\ heap' = heap]_vars

\* The negation of a negation of a leaf, built directly, was negated: the
\* inner negation came back, and negating that gives the leaf
C15_Witness ==
    /\ heap = DirectNots
    /\ outcome.op = "invert"
    /\ outcome.args.left = 4
    /\ outcome.result = Ref(3)
    /\ invert(heap, 3).id = 2

\* The operation of an in-place step
InPlaceOp(op) == IF op = "iand" THEN "and" ELSE "or"

\* C16: for all conditions A and B, the condition bound to the left name
\* after A &= B (A |= B) is structurally equal to A & B (A | B) computed from
\* the same operands before the in-place step.  A and B are the operands of
\* the in-place step just made; expected is A & B built first, in_place the
\* in-place step made with expected at hand, which is also what the step
\* itself produced.
C16_InPlaceEqualsCombine ==
    [][outcome'.op \in {"iand", "ior"}
       => \A A \in {outcome'.args.left}, B \in {outcome'.args.right},
             operation \in {InPlaceOp(outcome'.op)} :
            \A expected \in {Combine(heap, A, B, operation)} :
               \A in_place \in {CombineInPlace(expected.heap, A, B, operation)} :
                  /\ BaseCondition_eq(in_place.heap, in_place.id, expected.id)
                  /\ in_place.heap[in_place.id] = heap'[outcome'.result.id]
                  /\ \E n \in Names : env'[n] = outcome'.result.id]_vars

\* An And was extended in place by a condition of non-zero length
C16_Witness ==
    /\ outcome.op = "iand"
    /\ outcome.result.id = outcome.args.left
    /\ heap[outcome.args.left].operation = "and"
    /\ truth(heap, outcome.args.right)
    /\ Len(heap[outcome.args.left].values) >= 3

\* The object is referenced from somewhere else than the name being
\* assigned: two names hold it, or it is a child of a node
ReferencedElsewhere(id) ==
    \/ \E n \in Names, m \in Names : n # m /\ env[n] = id /\ env[m] = id
    \/ \E parent \in DOMAIN heap : \E k \in 1..Len(heap[parent].values) :
          heap[parent].values[k] = Ref(id)

\* C17: an in-place combination (&=, |=) never changes the children list of
\* a condition that is still referenced elsewhere.
C17_SharedChildrenUntouched ==
    [][outcome'.op \in {"iand", "ior"}
       => \A id \in DOMAIN heap :
            ReferencedElsewhere(id) => heap'[id].values = heap[id].values]_vars

\* The objects reachable from the objects of seen through the children of
\* and/or/not nodes
RECURSIVE ReachableFrom(_, _)
ReachableFrom(h, seen) ==
    LET Grown(more) == IF more \subseteq seen THEN seen
                       ELSE ReachableFrom(h, seen \cup more)
    IN Grown(UNION {{h[p].values[k].id : k \in 1..Len(h[p].values)} :
                      p \in {q \in seen : h[q].operation \in {"and", "or", "not"}}})

\* The leaf (non-connective, non-empty) conditions reachable from a condition
ReachableLeaves(h, id) ==
    {c \in ReachableFrom(h, {id}) : h[c].operation \notin {"and", "or", "not", "None"}}

\* C18: len(c) is the number of leaf conditions reachable from c; nested
\* And, Or and Not nodes are not counted and Empty has length 0.
C18_LenCountsLeaves ==
    outcome.op = "len"
    => outcome.result
         = Lit(ToString(Cardinality(ReachableLeaves(heap, outcome.args.left))))

-----------------------------------------------------------------------------
(* Properties of comparison construction *)

\* C19: constructing a comparison on a column whose declared type at the
\* column's path does not support the operation fails with
\* UnsupportedOperation and produces no condition; when the type supports
\* the operation the construction returns the leaf condition.
C19_UnsupportedOperationRaised ==
    outcome.op = "compare"
    => IF supports_operation(outcome.args.operation,
                             TypedefAt(outcome.args.column.typedef,
                                       outcome.args.column.path))
       THEN /\ outcome.raised = ""
            /\ outcome.result.operation = outcome.args.operation
            /\ outcome.result.column = outcome.args.column
       ELSE /\ outcome.raised = "UnsupportedOperation"
            /\ outcome.result = None

-----------------------------------------------------------------------------
(* Properties of a session that goes on after a failed fragment *)

\* The placeholder occurs in the text
Occurs(placeholder, text) ==
    \E i \in 1..(Len(text) - Len(placeholder) + 1) :
        SubSeq(text, i, i + Len(placeholder) - 1) = placeholder

\* The placeholder occurs in an expression the session has emitted
Emitted(exprs, placeholder) ==
    \E key \in DOMAIN exprs :
        exprs[key].kind = "str" /\ Occurs(placeholder, exprs[key].text)

\* A connective over columns without a path
TopLevelConnective(c) ==
    /\ c.operation \in {"and", "or"}
    /\ \A k \in 1..Len(c.values) : Len(c.values[k].column.path) = 0

\* C20: when a fragment (an And or Or whose first child is valid and whose
\* second child has a None operand) raises InvalidCondition, the caller
\* catches it and goes on to render another fragment, then
\* ExpressionAttributeNames and ExpressionAttributeValues hold only
\* placeholders that occur in an emitted expression.  The failed fragment is
\* the first of its session and the next one renders.
C20_OnlyEmittedPlaceholders ==
    [][(/\ steps = 1
        /\ outcome.op = "fragment"
        /\ outcome.raised = "InvalidCondition"
        /\ TopLevelConnective(outcome.args.filter)
        /\ outcome'.op = "fragment"
        /\ outcome'.raised = "")
       => \A placeholder \in DOMAIN refs'.attr_names \cup DOMAIN refs'.attr_values :
             Emitted(expressions', placeholder)]_vars

-----------------------------------------------------------------------------
(* Properties of the projection and of single leaves *)

\* The columns of a list without the repetitions, in the order of their
\* first occurrence
FirstOccurrences(columns) ==
    LET first == {k \in 1..Len(columns) :
                    \A j \in 1..(k - 1) : columns[j] # columns[k]}
    IN [i \in 1..Cardinality(first) |->
          columns[CHOOSE k \in first : Cardinality({j \in first : j <= k}) = i]]

\* C21: for any non-empty ordered list of columns, ProjectionExpression is
\* the comma-joined list of one name reference per distinct column, in the
\* order of each column's first occurrence; a column listed several times
\* contributes one list entry and one reference count.
C21_ProjectionListsDistinctColumns ==
    [][outcome'.op = "projection"
       => \A distinct \in {FirstOccurrences(outcome'.args.projection)} :
            /\ outcome'.raised = ""
            /\ \A k \in 1..Len(distinct) :
                  /\ distinct[k].dynamo_name \in DOMAIN refs'.name_attr_index
                  /\ CountOf(refs', refs'.name_attr_index[distinct[k].dynamo_name])
                       = 1 + (IF distinct[k].dynamo_name \in DOMAIN refs.name_attr_index
                              THEN CountOf(refs, refs.name_attr_index[distinct[k].dynamo_name])
                              ELSE 0)
            /\ expressions'["ProjectionExpression"].text
                 = JoinWith(", ", [k \in 1..Len(distinct) |->
                                     refs'.name_attr_index[distinct[k].dynamo_name]])]_vars

\* C22: in a fresh session, rendering column.between(lo, hi) with bounds
\* that are not None takes the column's name placeholder first and then the
\* lower and the upper value placeholder: the text is
\* (#n0 BETWEEN :v1 AND :v2), ExpressionAttributeNames is {#n0: wire name}
\* and ExpressionAttributeValues has exactly the two entries (the dumped
\* bounds, or the bounds as stored when the condition is flagged dumped).
C22_BetweenPlaceholders ==
    [][\A c \in {outcome'.args.filter} :
         (/\ outcome'.op = "fragment"
          /\ refs = NewTracker
          /\ c.operation = "between"
          /\ Len(c.column.path) = 0
          /\ ~IsColumn(c.values[1]) /\ ~IsColumn(c.values[2])
          /\ ~DumpsNone(c, c.values[1])
          /\ ~DumpsNone(c, c.values[2]))
         => /\ outcome'.raised = ""
            /\ expressions'["FilterExpression"].text = "(#n0 BETWEEN :v1 AND :v2)"
            /\ refs'.attr_names = [n \in {"#n0"} |-> c.column.dynamo_name]
            /\ refs'.attr_values
                 = [v \in {":v1", ":v2"} |->
                      IF c.dumped
                      THEN (IF v = ":v1" THEN c.values[1] ELSE c.values[2])
                      ELSE Dump(c.column.typedef,
                                IF v = ":v1" THEN c.values[1] ELSE c.values[2])]]_vars

\* age.between(1, 5) was rendered first in its session
C22_Witness ==
    /\ steps = 1
    /\ outcome.op = "fragment"
    /\ outcome.args.filter = BetweenCondition(ColAge, Lit("1"), Lit("5"))
    /\ DOMAIN refs.attr_values = {":v1", ":v2"}
    /\ refs.attr_values[":v1"] # refs.attr_values[":v2"]

-----------------------------------------------------------------------------
(* Properties of render calls whose steps are interleaved *)

\* C23: every render call builds its own tracker: however the steps of two
\* calls are interleaved, the result of each call (or the exception it
\* raised) is the result of running that call alone, with placeholders
\* numbered from 0 by its own counter and no entry allocated by the other
\* call.
C23_InterleavedRendersAreIndependent ==
    \A t \in Threads :
        calls.threads[t].pc = "done"
        => \A alone \in {ConditionRenderer_render(NewSession, tracking, attrs,
                                                  calls.threads[t].args).session} :
             /\ calls.threads[t].raised = alone.raised
             /\ calls.threads[t].result
                  = IF alone.raised = "" THEN rendered(alone.expressions, alone.refs)
                    ELSE None

\* Thread 2 built its renderer first and is still rendering, with
\* placeholders already allocated, when thread 1, which started later, has
\* returned a result with names and values
C23_Witness ==
    /\ calls.threads[2].refs = 1
    /\ calls.threads[2].pc = "condition"
    /\ calls.trackers[1].next_index > 1
    /\ calls.threads[1].refs = 2
    /\ calls.threads[1].pc = "done"
    /\ calls.threads[1].raised = ""
    /\ "ExpressionAttributeValues" \in DOMAIN calls.threads[1].result
    /\ "#n0" \in DOMAIN calls.threads[1].result["ExpressionAttributeNames"]

-----------------------------------------------------------------------------
(* Properties of the tracking cache shared by two objects *)

\* The cache and the attributes of object o alone
Only(f, o) == [x \in {o} |-> f[o]]

\* C24: the tracking cache is keyed per object: in any interleaving of
\* mark, sync, get_snapshot, get_marked and on_delete on two objects, an
\* operation on one object leaves the other object's marked set and
\* snapshot as they were, and changes its own object's entry, and returns,
\* what the same operation does in a cache that holds that object alone.
C24_ObjectsAreTrackedApart ==
    [][\A o \in CacheObjects :
         /\ outcome'.args.obj # o
            => tracking'[o] = tracking[o] /\ attrs'[o] = attrs[o]
         /\ outcome'.args.obj = o =>
              /\ outcome'.op \in {"set", "delete_attr"}
                 => tracking'[o] = on_object_modified(Only(tracking, o), o,
                                                      outcome'.args.column)[o]
              /\ outcome'.op = "sync"
                 => tracking'[o] = sync(Only(tracking, o), Only(attrs, o), o)[o]
              /\ outcome'.op = "get_snapshot"
                 => /\ tracking'[o] = get_snapshot(Only(tracking, o), o).tracking[o]
                    /\ outcome'.result = get_snapshot(Only(tracking, o), o).snapshot
              /\ outcome'.op = "get_marked"
                 => /\ tracking'[o] = tracking[o]
                    /\ outcome'.result = get_marked(Only(tracking, o), o)
              /\ outcome'.op = "on_delete"
                 => tracking'[o] = on_object_deleted(Only(tracking, o), o)[o]
      ]_vars

\* Y was marked, synced and then deleted while X, marked on another column
\* and synced, is asked for its snapshot
C24_Witness ==
    /\ outcome.op = "get_snapshot"
    /\ outcome.args.obj = "X"
    /\ tracking["X"].marked = {ColName}
    /\ ~IsNone(tracking["X"].snapshot)
    /\ Len(tracking["X"].snapshot.values) > 0
    /\ tracking["Y"].marked = {ColAge}
    /\ "snapshot" \notin DOMAIN tracking["Y"]

-----------------------------------------------------------------------------
(* Properties of the reference tracker *)

\* The placeholders the tracker has counted or holds in a table
Placeholders(tr) ==
    DOMAIN tr.counts \cup DOMAIN tr.attr_names \cup DOMAIN tr.attr_values

\* C25: after any sequence of name allocations, value allocations and
\* releases, a placeholder is a key of the name table or of the value table
\* exactly when its count is positive, no count is negative, and the name
\* table and the segment index are inverse maps.
C25_TablesMatchCounts ==
    /\ \A k \in Placeholders(refs) :
          /\ (k \in DOMAIN refs.attr_names \cup DOMAIN refs.attr_values)
                <=> CountOf(refs, k) > 0
          /\ CountOf(refs, k) >= 0
    /\ \A k \in DOMAIN refs.attr_names :
          /\ refs.attr_names[k] \in DOMAIN refs.name_attr_index
          /\ refs.name_attr_index[refs.attr_names[k]] = k
    /\ \A n \in DOMAIN refs.name_attr_index :
          /\ refs.name_attr_index[n] \in DOMAIN refs.attr_names
          /\ refs.attr_names[refs.name_attr_index[n]] = n

\* A name referenced twice is live after a value has been allocated and
\* released
C25_Witness ==
    /\ outcome.op = "pop_refs"
    /\ \E k \in DOMAIN refs.attr_names : CountOf(refs, k) = 2
    /\ \E k \in {":v0", ":v1"} : k \in DOMAIN refs.counts /\ refs.counts[k] = 0
    /\ refs.attr_values = << >>

\* The tables of a tracker
Tables(tr) == <<tr.attr_names, tr.attr_values, tr.name_attr_index>>

\* C26: releasing a single-segment name or a value takes one from its count
\* and removes the placeholder from its table with the last reference, so
\* that releasing a name as often as it was referenced and a value once
\* leaves the tables empty; any further release, and the release of a
\* reference the tracker never allocated, changes neither the tables nor
\* any count.
C26_ReleaseIsExactAndIdempotent ==
    [][outcome'.op = "pop_refs" =>
        \A name \in {outcome'.args.ref.name} :
          /\ \A k \in (Placeholders(refs) \cup Placeholders(refs')) \ {name} :
                CountOf(refs', k) = CountOf(refs, k)
          /\ CountOf(refs, name) = 0
                => Tables(refs') = Tables(refs) /\ CountOf(refs', name) = 0
          /\ CountOf(refs, name) > 0
                => /\ CountOf(refs', name) = CountOf(refs, name) - 1
                   /\ CountOf(refs, name) = 1
                        => name \notin DOMAIN refs'.attr_names
                                         \cup DOMAIN refs'.attr_values
                   /\ CountOf(refs, name) > 1 => Tables(refs') = Tables(refs)
          /\ (\A k \in Placeholders(refs') : CountOf(refs', k) = 0)
                => Tables(refs') = <<<< >>, << >>, << >>>>
    ]_vars

\* A name and a value were allocated and released, the tables are empty, and
\* both have been released once more, as has a reference never allocated
C26_Witness ==
    /\ outcome.op = "pop_refs"
    /\ Tables(refs) = <<<< >>, << >>, << >>>>
    /\ refs.next_index = 2
    /\ DOMAIN refs.counts = {"#n0", ":v1", "#n9"}
    /\ \A k \in DOMAIN refs.counts : refs.counts[k] = 0
    /\ outcome.args.ref.name = "#n0"

\* The placeholders in the tables of a tracker
Live(tr) == DOMAIN tr.attr_names \cup DOMAIN tr.attr_values

\* The name and the value placeholder of index i
WithIndex(i) == {"#n" \o ToString(i), ":v" \o ToString(i)}

\* C27: the allocation counter never decreases and no index is issued
\* twice: names and values take their indexes from the one counter, every
\* new placeholder has an index the counter had not reached before, and so
\* a segment referenced again after its placeholder was fully released gets
\* a new placeholder with a larger index.
C27_IndexesAreNeverReused ==
    [][/\ refs'.next_index >= refs.next_index
       /\ \A k \in Live(refs') \ Live(refs) :
             /\ k \notin DOMAIN refs.counts
             /\ \E i \in refs.next_index .. (refs'.next_index - 1) :
                   k \in WithIndex(i)
       /\ \A i \in 0 .. refs'.next_index :
             /\ ~(WithIndex(i) \subseteq DOMAIN refs'.counts)
             /\ i >= refs'.next_index => WithIndex(i) \cap Live(refs') = {}
    ]_vars

\* age was referenced, released, and referenced again: its placeholder is
\* now #n1, and #n0 is not reused
C27_Witness ==
    /\ outcome.op = "any_ref"
    /\ outcome.args.column = ColAge
    /\ outcome.args.value = missing
    /\ outcome.result.name = "#n1"
    /\ refs.attr_names = Put(<< >>, "#n1", "age")
    /\ DOMAIN refs.counts = {"#n0", "#n1"}
    /\ refs.counts["#n0"] = 0
    /\ refs.next_index = 2

\* The path-segment strings of a column: its wire name and the keys of its path
SegmentsOf(column) ==
    {column.dynamo_name}
        \cup {column.path[i].key : i \in {j \in DOMAIN column.path : ~column.path[j].isint}}

\* The column a name reference is made to
ReferencedColumn(args) == IF IsColumn(args.value) THEN args.value.col ELSE args.column

\* C28: within one tracker every reference to the same path-segment string,
\* whichever column it comes from, resolves to the placeholder the segment
\* already has while that placeholder is live; the name table never holds
\* two placeholders for one segment; and each reference adds one to the
\* placeholder's count.
C28_OnePlaceholderPerSegment ==
    [][/\ \A k1, k2 \in DOMAIN refs'.attr_names :
             refs'.attr_names[k1] = refs'.attr_names[k2] => k1 = k2
       /\ (outcome'.op = "any_ref" /\ outcome'.result.type = "name") =>
             \A seg \in SegmentsOf(ReferencedColumn(outcome'.args)) :
               /\ seg \in DOMAIN refs'.name_attr_index
               /\ seg \in DOMAIN refs.name_attr_index
                    => refs'.name_attr_index[seg] = refs.name_attr_index[seg]
               /\ \A k \in {refs'.name_attr_index[seg]} :
                    /\ refs'.attr_names[k] = seg
                    /\ CountOf(refs', k) = CountOf(refs, k) + 1
                    /\ Occurs(k, outcome'.result.name)
    ]_vars

\* The segment age, referenced by the column age, is referenced again by
\* the path data.age and keeps its placeholder
C28_Witness ==
    /\ outcome.op = "any_ref"
    /\ outcome.args.column = DataAge
    /\ outcome.result.name = "#n1.#n0"
    /\ refs.attr_names = Put(Put(<< >>, "#n0", "age"), "#n1", "data")
    /\ refs.counts["#n0"] = 2

\* C29: every value reference mints a new placeholder: it has never been
\* used before, it adds one entry to the value table, and its count is
\* exactly 1, so that two value references, even for the same column and
\* equal values, have two distinct names and two entries.
C29_ValuesAreNeverShared ==
    [][/\ \A k \in DOMAIN refs'.attr_values : CountOf(refs', k) = 1
       /\ (outcome'.op = "any_ref" /\ outcome'.result.type = "value") =>
             \A k \in {outcome'.result.name} :
               /\ k = ":v" \o ToString(refs.next_index)
               /\ k \notin Placeholders(refs)
               /\ refs'.attr_values = Put(refs.attr_values, k, outcome'.result.value)
               /\ DOMAIN refs'.attr_values # DOMAIN refs.attr_values
               /\ CountOf(refs', k) = 1
               /\ refs'.attr_names = refs.attr_names
    ]_vars

\* Two value references for the column age with the value 3 are live
C29_Witness ==
    /\ outcome.op = "any_ref"
    /\ outcome.args = [column |-> ColAge, value |-> Lit("3")]
    /\ outcome.result.name = ":v1"
    /\ refs.attr_values = Put(Put(<< >>, ":v0", Wire("N", "3")), ":v1", Wire("N", "3"))
    /\ refs.counts = Put(Put(<< >>, ":v0", 1), ":v1", 1)

-----------------------------------------------------------------------------
(* Properties of the dumped flag *)

\* The type at the column's path
ColumnType(c) == TypedefAt(c.column.typedef, c.column.path)

\* The type the operands of a leaf are converted through: the type at the
\* column's path, and for contains the element type of that type
OperandType(c) ==
    IF c.operation = "contains" THEN InnerTypedef(ColumnType(c)) ELSE ColumnType(c)

\* The entry the operand at position i of the leaf c is to leave in
\* ExpressionAttributeValues when values that are not dumped are converted
\* through the type t
EntryFor(c, i, t) == IF c.dumped THEN c.values[i] ELSE Dump(t, c.values[i])

\* The step has left the earlier entries as they were, has added nothing
\* when it raised, and has otherwise added, value by value and as often,
\* the entries of the operands of c that are not columns (a value that is
\* None is not kept)
EntriesAdded(c, t) ==
    \A new \in {DOMAIN refs'.attr_values \ DOMAIN refs.attr_values} :
      \A operands \in {{i \in 1..Len(c.values) : ~IsColumn(c.values[i])}} :
        /\ \A k \in DOMAIN refs.attr_values :
              k \in DOMAIN refs'.attr_values
              /\ refs'.attr_values[k] = refs.attr_values[k]
        /\ outcome'.raised # "" => new = {}
        /\ outcome'.raised = "" =>
              /\ \A k \in new :
                    \E i \in operands : refs'.attr_values[k] = EntryFor(c, i, t)
              /\ \A i \in operands :
                    EntryFor(c, i, t).kind # "None" =>
                       Cardinality({k \in new : refs'.attr_values[k] = EntryFor(c, i, t)})
                         = Cardinality({j \in operands :
                                          EntryFor(c, j, t) = EntryFor(c, i, t)})

\* C30 as stated: for a leaf flagged dumped the entry written to
\* ExpressionAttributeValues is the leaf's stored value unchanged, the dump
\* not being applied to it; for a leaf not flagged dumped the entry is the
\* dump of the stored value through the type at the column's path.
C30_Original ==
    [][(outcome'.op = "fragment" /\ IsLeaf(outcome'.args.filter)) =>
          EntriesAdded(outcome'.args.filter, ColumnType(outcome'.args.filter))
    ]_vars

\* C30, amended: for a leaf flagged dumped every entry written to
\* ExpressionAttributeValues is a stored value of the leaf unchanged, the
\* dump not being applied to it; for a leaf not flagged dumped every entry
\* is the dump of a stored value through the type at the column's path,
\* except for contains, whose value is dumped through the element type of
\* the type at the column's path.  One entry is written per operand that is
\* not a column (a value that is None after this is not kept, and a leaf
\* that raises leaves none).
C30_DumpedValuesAreWrittenAsStored ==
    [][(outcome'.op = "fragment" /\ IsLeaf(outcome'.args.filter)) =>
          EntriesAdded(outcome'.args.filter, OperandType(outcome'.args.filter))
    ]_vars

\* contains on data.a.b was rendered with a value to be dumped, which went
\* through the element type, and then a between whose two bounds are in
\* wire form and flagged dumped
C30_Witness ==
    /\ steps = 2
    /\ outcome.op = "fragment"
    /\ outcome.args.filter
         = SetDumped(BetweenCondition(ColAge, Wire("N", "1"), Wire("N", "5")))
    /\ outcome.raised = ""
    /\ \E k1, k2, k3 \in DOMAIN refs.attr_values :
          /\ DOMAIN refs.attr_values = {k1, k2, k3}
          /\ refs.attr_values[k1] = Wire(InnerTypedef(ColumnType(ContainsCondition(DataAB, Lit("3")))), "3")
          /\ refs.attr_values[k2] = Wire("N", "1")
          /\ refs.attr_values[k3] = Wire("N", "5")

-----------------------------------------------------------------------------
(* Properties of the enumeration of a condition graph *)

\* No object occurs twice in the sequence
NoRepeats(seq) == \A i, j \in 1..Len(seq) : seq[i] = seq[j] => i = j

\* C31: iter_conditions terminates on every condition graph, also when a
\* connective contains itself directly or through other nodes, and yields
\* no node more than once; what it has yielded when it ends is what len of
\* an and/or counts, so len ends on such graphs too.
\* (The graph may be extended between two steps of the generator; steps = 0
\* says that it was not.)
C31_IterationTerminates ==
    /\ [](/\ NoRepeats(iter.yielded)
          /\ (iter.pc = "done" /\ steps = 0) =>
                /\ iter.yielded = iter_conditions_of(heap, iter.root)
                /\ heap[iter.root].operation \in {"and", "or"}
                     => len(heap, iter.root) = Len(iter.yielded))
    /\ ((iter.pc \in {"created", "suspended"}) ~> (iter.pc = "done"))

\* The enumeration of a & b, which holds itself through an OR, has ended
\* and has yielded the root once
C31_Witness ==
    /\ heap = IndirectCycle
    /\ steps = 0
    /\ iter.pc = "done"
    /\ iter.root = 4
    /\ \E i \in 1..Len(iter.yielded) : iter.yielded[i] = 4
    /\ Len(iter.yielded) = 4

\* The columns of a leaf: its column and every value that is a column
ColumnsOfLeaf(c) ==
    {c.column} \cup {c.values[k].col : k \in {j \in 1..Len(c.values) : IsColumn(c.values[j])}}

\* The columns referenced by the leaves that iter_conditions reaches
ReferencedColumns(h, id) ==
    UNION {ColumnsOfLeaf(h[n]) : n \in ReachableLeaves(h, id)}

\* C32: iter_columns yields every column referenced by a leaf reachable
\* from the root, each exactly once: the left-hand column of every leaf and
\* every column that is a right-hand value of a leaf, also when several
\* leaves share the left-hand column and differ in the right-hand one.
C32_EveryColumnOnce ==
    iter.pc = "done" =>
        /\ iter.raised = ""
        /\ NoRepeats(iter.yielded)
        /\ {iter.yielded[i] : i \in 1..Len(iter.yielded)}
              = ReferencedColumns(heap, iter.root)

-----------------------------------------------------------------------------
(* Properties of the result of a render call *)

Digits == {"0", "1", "2", "3", "4", "5", "6", "7", "8", "9"}

\* The placeholders written in a text: #n or :v followed by all the digits
\* that come next (one or two)
PlaceholdersIn(text) ==
    {SubSeq(text, p[1], p[2]) :
        p \in {q \in (1..Len(text)) \X (1..Len(text)) :
                 /\ q[2] \in (q[1] + 2)..(q[1] + 3)
                 /\ SubSeq(text, q[1], q[1] + 1) \in {"#n", ":v"}
                 /\ \A k \in (q[1] + 2)..q[2] : SubSeq(text, k, k) \in Digits
                 /\ (q[2] = Len(text) \/ SubSeq(text, q[2] + 1, q[2] + 1) \notin Digits)}}

\* The placeholders written in the expression strings of a result
PlaceholdersOf(result) ==
    UNION {PlaceholdersIn(result[k]) :
             k \in DOMAIN result \ {"ExpressionAttributeNames",
                                     "ExpressionAttributeValues"}}

\* The keys of the two tables of a result
TableKeys(result) ==
    (IF "ExpressionAttributeNames" \in DOMAIN result
     THEN DOMAIN result["ExpressionAttributeNames"] ELSE {})
    \cup (IF "ExpressionAttributeValues" \in DOMAIN result
          THEN DOMAIN result["ExpressionAttributeValues"] ELSE {})

\* C33: after a render call that completes without error, whatever the
\* filter, projection, key, condition, atomic and update inputs, the
\* placeholders written in the emitted expression strings are exactly the
\* keys of ExpressionAttributeNames and ExpressionAttributeValues.
C33_PlaceholdersMatchTables ==
    (outcome.op = "render" /\ outcome.raised = "")
        => PlaceholdersOf(outcome.result) = TableKeys(outcome.result)

\* A call with all the inputs on an object with name set and age deleted:
\* five expressions, and a value placeholder of two digits
C33_Witness ==
    /\ outcome.op = "render"
    /\ outcome.raised = ""
    /\ outcome.args.atomic /\ outcome.args.update
    /\ outcome.args.condition = LeafName
    /\ {"FilterExpression", "ProjectionExpression", "KeyConditionExpression",
        "ConditionExpression", "UpdateExpression"} \subseteq DOMAIN outcome.result
    /\ \E k \in DOMAIN outcome.result["ExpressionAttributeValues"] : Len(k) = 4
    /\ PlaceholdersIn(outcome.result["UpdateExpression"]) # {}

\* C34: whenever a leaf render or an update render step has finished, by
\* returning or by raising InvalidCondition, ExpressionAttributeValues has no
\* entry whose value is None: a value placeholder with a None payload does
\* not survive the step that allocated it.
C34_NoNoneInValues ==
    \A k \in DOMAIN refs.attr_values : refs.attr_values[k].kind # "None"

\* After a leaf that kept a value, an update has removed the deleted column
\* age, whose None value was allocated and released
C34_Witness ==
    /\ steps = 2
    /\ outcome.op = "update"
    /\ "UpdateExpression" \in DOMAIN expressions
    /\ Occurs("REMOVE", expressions["UpdateExpression"].text)
    /\ Occurs("SET", expressions["UpdateExpression"].text)
    /\ \E k \in DOMAIN refs.counts : RefTypeOf(k) = "value" /\ refs.counts[k] = 0
    /\ Cardinality(DOMAIN refs.attr_values) = 2

-----------------------------------------------------------------------------
(* Properties of a sync with nothing marked *)

\* The object's cached snapshot is the empty condition
EmptySnapshot(trk, obj) ==
    /\ obj \in DOMAIN trk
    /\ "snapshot" \in DOMAIN trk[obj]
    /\ trk[obj].snapshot = Condition

\* C35: a sync on an object with no marked column caches the empty
\* condition as the snapshot (present, not absent); get_snapshot then
\* returns the empty condition, not the default that expects every column
\* to be None; and an atomic render without an explicit condition emits no
\* ConditionExpression.
C35_SyncWithNothingMarked ==
    [][/\ (outcome'.op = "sync" /\ tracking[outcome'.args.obj].marked = {})
          => EmptySnapshot(tracking', outcome'.args.obj)
       /\ (outcome'.op = "get_snapshot" /\ EmptySnapshot(tracking, outcome'.args.obj))
          => /\ outcome'.result = Condition
             /\ tracking' = tracking
       /\ (/\ outcome'.op = "render"
           /\ outcome'.args.atomic
           /\ ~ArgTruthy(outcome'.args.condition)
           /\ EmptySnapshot(tracking, outcome'.args.obj))
          => /\ outcome'.raised = ""
             /\ "ConditionExpression" \notin DOMAIN outcome'.result
             /\ tracking' = tracking
    ]_vars

\* The object was synced with nothing marked and name was set afterwards;
\* an atomic render with an update has returned the update alone
C35_Witness ==
    /\ outcome.op = "render"
    /\ outcome.args.atomic /\ outcome.args.update
    /\ outcome.args.condition = None
    /\ outcome.args.filter = None
    /\ EmptySnapshot(tracking, "X")
    /\ tracking["X"].marked = {ColName}
    /\ outcome.raised = ""
    /\ "UpdateExpression" \in DOMAIN outcome.result
    /\ "ConditionExpression" \notin DOMAIN outcome.result

-----------------------------------------------------------------------------
(* Properties of a render call without an object *)

\* The call asks for atomic or update and gives no object
NeedsObject(args) == (args.atomic \/ args.update) /\ args.obj = NoObject

\* C36: a render call that asks for atomic or update without an object
\* raises InvalidCondition before any fragment is rendered: its tracker has
\* allocated no placeholder, no expression is recorded and the tracking
\* cache is unchanged, also when filter, projection or key were supplied.
C36_ObjectRequiredFirst ==
    [][\A t \in Threads :
         (/\ calls.threads[t].pc = "check"
          /\ calls'.threads[t] # calls.threads[t]
          /\ NeedsObject(calls.threads[t].args))
         => /\ calls'.threads[t].pc = "done"
            /\ calls'.threads[t].raised = "InvalidCondition"
            /\ calls'.threads[t].result = None
            /\ calls'.threads[t].expressions = << >>
            /\ calls'.trackers[calls.threads[t].refs] = NewTracker
            /\ tracking' = tracking
            /\ attrs' = attrs
    ]_vars

\* The call with update, filter, projection and key and no object has
\* raised, its tracker untouched, while the other thread is rendering
C36_Witness ==
    /\ calls.threads[1].pc = "done"
    /\ calls.threads[1].raised = "InvalidCondition"
    /\ calls.threads[1].args.update
    /\ calls.threads[1].args.filter = LeafAge
    /\ calls.trackers[calls.threads[1].refs] = NewTracker
    /\ calls.threads[2].pc = "key"
    /\ calls.trackers[calls.threads[2].refs] # NewTracker

=============================================================================
